---- MODULE Spec2Model ----
(***************************************************************************)
(* Signed-call construction of the Sapphire JS client                      *)
(* (clients/js/src/signed_calls.ts): the leash builder makeLeash, the call *)
(* normalizer makeSignableCall, the typed-data signer signCall, the        *)
(* process-wide SignedCallCache and SignedCallDataPack.make.               *)
(*                                                                         *)
(* Every `await` of the source is a point where another make call, or the  *)
(* chain, may take a step; the code between two awaits runs atomically     *)
(* (one JavaScript job) and is one action here.  A continuation that       *)
(* touches neither the cache nor the chain state is folded into the step   *)
(* that precedes it.                                                       *)
(***************************************************************************)
EXTENDS Integers, Sequences, FiniteSets, TLC

-----------------------------------------------------------------------------
(* Program constants, signed_calls.ts:20-26 *)

DEFAULT_GAS_PRICE == 1
DEFAULT_GAS_LIMIT == 30000000
DEFAULT_VALUE == 0
DEFAULT_NONCE_RANGE == 20
DEFAULT_BLOCK_RANGE == 4000
\* '0x': a hex string with no digits after the prefix
DEFAULT_DATA == << >>
zeroAddress == "0x0000000000000000000000000000000000000000"

-----------------------------------------------------------------------------
(* Bounds of the model *)

\* largest pending transaction count an account reaches
MaxPending == 20
\* largest height the chain head reaches
MaxHeight == 4000
\* a new make call starts only while fewer signatures than this are cached
MaxSigs == 2
\* longest call data, in bytes, given to the normalizer
MaxDataLen == 1
\* encode() calls the caller makes
MaxEncodes == 2
\* packs the caller takes from make, one in place of the other
MaxTakes == 2

-----------------------------------------------------------------------------
(* JavaScript values *)

\* an optional value: undefined is the empty tuple, a present value v is <<v>>
None == << >>
Some(v) == << v >>
IsSome(o) == o # << >>
IsNone(o) == o = << >>
Val(o) == o[1]

\* `x ? a : b` on an optional number: undefined and 0 are falsy
Truthy(o) == IsSome(o) /\ Val(o) # 0

\* a Map: a function whose domain is the set of keys present
EmptyMap == [k \in {} |-> 0]
MapSet(m, k, v) == [x \in (DOMAIN m) \cup {k} |-> IF x = k THEN v ELSE m[x]]
MapHas(m, k) == k \in DOMAIN m
MapGet(m, k) == IF k \in DOMAIN m THEN Some(m[k]) ELSE None

-----------------------------------------------------------------------------
(* Bytes and hex strings.  A hex string '0x..' is the sequence of its hex  *)
(* digits (0..15); a Uint8Array is a sequence of bytes (0..255).           *)

\* ethers.getBytes / getBytesCopy on a hex string
GetBytes(hex) == [i \in 1..(Len(hex) \div 2) |-> 16 * hex[2 * i - 1] + hex[2 * i]]

\* ethers.hexlify on bytes
Hexlify(bytes) ==
  [i \in 1..(2 * Len(bytes)) |->
     IF i % 2 = 1 THEN bytes[(i + 1) \div 2] \div 16 ELSE bytes[i \div 2] % 16]

\* new Uint8Array(number[]): every element is taken modulo 256
Uint8Array(arr) == [i \in 1..Len(arr) |-> arr[i] % 256]

\* A BytesLike is [kind, v]: kind "array" (number[]), "u8" (Uint8Array),
\* "hex" ('0x'-prefixed hex string, v its digits) or "empty" (the string '').
\* `call.data ? .. : ..`: only the empty string is falsy
TruthyData(o) == IsSome(o) /\ Val(o).kind # "empty"

parseBytesLike(data) ==
  IF data.kind = "array" THEN Uint8Array(data.v)
  ELSE IF data.kind = "hex" THEN GetBytes(data.v)
  ELSE data.v

stringifyBytesLike(data) ==
  IF data.kind = "array" THEN Hexlify(Uint8Array(data.v))
  ELSE IF data.kind = "hex" THEN data.v
  ELSE Hexlify(data.v)

-----------------------------------------------------------------------------
(* Numbers as hex quantities (BigNumber.toHexString) and back, as the      *)
(* typed-data encoder reads them                                           *)

RECURSIVE HexDigits(_)
HexDigits(n) == IF n < 16 THEN << n >> ELSE Append(HexDigits(n \div 16), n % 16)

\* BigNumber.toHexString: an even number of digits
toHexString(n) ==
  LET d == HexDigits(n) IN IF Len(d) % 2 = 1 THEN << 0 >> \o d ELSE d

RECURSIVE HexValue(_)
HexValue(d) ==
  IF Len(d) = 0 THEN 0 ELSE 16 * HexValue(SubSeq(d, 1, Len(d) - 1)) + d[Len(d)]

-----------------------------------------------------------------------------
(* The world outside: signers, their accounts and the chain *)

Signers == {"A", "B"}
Address(s) == IF s = "A" THEN "0xAA" ELSE "0xBB"
\* chain id reported by the provider's getNetwork
ProviderChain == 1

\* the block at height n as provider.getBlock(n) returns it; the hash is a
\* hex string, shortened to two digits
BlockAt(n) == [number |-> n, hash |-> << (n \div 16) % 16, n % 16 >>]

\* heights the chain head takes, in increasing order
Heights == {2, DEFAULT_BLOCK_RANGE - 1, MaxHeight}
\* pending transaction counts an account takes, in increasing order
PendingValues == {0, MaxPending}

-----------------------------------------------------------------------------
(* Leash builder, pure parts (makeLeash) *)

\* a plausible slip: the nonce override tested for truthiness, as line 183 does
ClearsUpFrontIfTruthy(ov) == Truthy(ov.nonce) \/ IsSome(ov.block)

\* signed_calls.ts:179: the test that decides the up-front _cache.clear()
ClearsUpFront(ov) == IsSome(ov.nonce) \/ IsSome(ov.block)

\* signed_calls.ts:206: with neither override the leash cache is consulted
ConsultsCache(ov) == IsNone(ov.nonce) /\ IsNone(ov.block)

\* signed_calls.ts:203
BlockRangeOf(ov) ==
  IF IsSome(ov.blockRange) THEN Val(ov.blockRange) ELSE DEFAULT_BLOCK_RANGE

\* signed_calls.ts:216-219: the reuse test on a cached leash
Reusable(cachedLeash, nonce, block, blockRange) ==
  /\ cachedLeash.nonce > nonce
  /\ cachedLeash.block_number + blockRange > block.number + 2

\* signed_calls.ts:229-234: the leash built from the resolved nonce and block
FreshLeash(ov, nonce, block) ==
  [nonce |-> IF Truthy(ov.nonce) THEN Val(ov.nonce)
             ELSE nonce + DEFAULT_NONCE_RANGE,
   block_number |-> block.number,
   block_hash |-> GetBytes(block.hash),
   block_range |-> BlockRangeOf(ov)]

-----------------------------------------------------------------------------
(* Call normalizer (makeSignableCall).  Gas values are JavaScript safe     *)
(* integers, so BigNumber.from(x).toNumber() is x.                         *)

\* a plausible slip: `||` for `??`, so that a gas of 0 falls through
GasLimitOfTruthy(call) ==
  IF Truthy(call.gas) THEN Val(call.gas)
  ELSE IF Truthy(call.gasLimit) THEN Val(call.gasLimit)
  ELSE DEFAULT_GAS_LIMIT

\* call.gas ?? call.gasLimit ?? DEFAULT_GAS_LIMIT
GasLimitOf(call) ==
  IF IsSome(call.gas) THEN Val(call.gas)
  ELSE IF IsSome(call.gasLimit) THEN Val(call.gasLimit)
  ELSE DEFAULT_GAS_LIMIT

makeSignableCall(call, leash) ==
  [from |-> call.from,
   to |-> IF IsSome(call.to) THEN Val(call.to) ELSE zeroAddress,
   gasLimit |-> GasLimitOf(call),
   gasPrice |-> IF IsSome(call.gasPrice) THEN Val(call.gasPrice)
                ELSE DEFAULT_GAS_PRICE,
   value |-> IF IsSome(call.value) THEN Val(call.value) ELSE DEFAULT_VALUE,
   data |-> IF TruthyData(call.data) THEN stringifyBytesLike(Val(call.data))
            ELSE DEFAULT_DATA,
   leash |-> [nonce |-> leash.nonce,
              blockNumber |-> leash.block_number,
              blockHash |-> leash.block_hash,
              blockRange |-> leash.block_range]]

-----------------------------------------------------------------------------
(* Typed-data signer, pure parts (signCall) *)

signedCallEIP712Params(chainId) ==
  [domain |-> [name |-> "oasis-runtime-sdk/evm: signed query",
               version |-> "1.0.0",
               chainId |-> chainId],
   types |-> [Call |-> << "from", "to", "gasLimit", "gasPrice", "value",
                          "data", "leash" >>,
              Leash |-> << "nonce", "blockNumber", "blockHash",
                           "blockRange" >>]]

\* the chain id becomes a hex quantity; a chain id of 0 is dropped
upgradeDomain(domain) ==
  [domain EXCEPT
     !.chainId = IF domain.chainId # 0 THEN Some(toHexString(domain.chainId))
                 ELSE None]

\* gasPrice and value become hex quantities, data becomes bytes
upgradeCall(call) ==
  [call EXCEPT !.gasPrice = toHexString(call.gasPrice),
               !.value = toHexString(call.value),
               !.data = GetBytes(call.data)]

\* ethers.TypedDataEncoder.hash: a collision-free digest is the canonical
\* content it is computed over
TypedDataHash(domain, types, call) ==
  [name |-> domain.name,
   version |-> domain.version,
   chainId |-> IF IsSome(domain.chainId) THEN Some(HexValue(Val(domain.chainId)))
               ELSE None,
   schema |-> types,
   from |-> call.from,
   to |-> call.to,
   gasLimit |-> call.gasLimit,
   gasPrice |-> HexValue(call.gasPrice),
   value |-> HexValue(call.value),
   data |-> call.data,
   leash |-> call.leash]

\* the hash signCall computes for a call on a chain (signed_calls.ts:272-279)
CallHash(chainId, call) ==
  LET p == signedCallEIP712Params(chainId)
  IN TypedDataHash(upgradeDomain(p.domain), p.types, upgradeCall(call))

\* what the signer returns for a digest; salt stands for the signer's own
\* randomness (two requests for one digest need not return the same bytes)
SignatureOf(address, hash, salt) ==
  [signer |-> address, hash |-> hash, salt |-> salt]

-----------------------------------------------------------------------------
(* SignedCallCache *)

\* a plausible slip: a signature already stored under the hash is kept
CacheSignatureIfAbsent(sigs, address, hash, signature) ==
  IF MapHas(sigs, address) /\ MapHas(sigs[address], hash) THEN sigs
  ELSE MapSet(sigs, address,
              MapSet(IF MapHas(sigs, address) THEN sigs[address]
                     ELSE EmptyMap,
                     hash, signature))

\* SignedCallCache.cache, the signature map (signed_calls.ts:46-48)
CacheSignature(sigs, address, hash, signature) ==
  MapSet(sigs, address,
         MapSet(IF MapHas(sigs, address) THEN sigs[address] ELSE EmptyMap,
                hash, signature))

\* a plausible slip: a leash already stored for the chain is kept
CacheLeashIfAbsent(leashes, chainId, call) ==
  IF MapHas(leashes, chainId) THEN leashes
  ELSE MapSet(leashes, chainId,
              [nonce |-> call.leash.nonce,
               block_number |-> call.leash.blockNumber,
               block_hash |-> call.leash.blockHash,
               block_range |-> call.leash.blockRange])

\* a plausible slip: the leash map rebuilt with the one entry
CacheLeashAlone(leashes, chainId, call) ==
  MapSet(EmptyMap, chainId,
         [nonce |-> call.leash.nonce,
          block_number |-> call.leash.blockNumber,
          block_hash |-> call.leash.blockHash,
          block_range |-> call.leash.blockRange])

\* SignedCallCache.cache, the leash map (signed_calls.ts:49-54)
CacheLeash(leashes, chainId, call) ==
  MapSet(leashes, chainId,
         [nonce |-> call.leash.nonce,
          block_number |-> call.leash.blockNumber,
          block_hash |-> call.leash.blockHash,
          block_range |-> call.leash.blockRange])

\* SignedCallCache.get
CacheGet(sigs, address, hash) ==
  IF MapHas(sigs, address) THEN MapGet(sigs[address], hash) ELSE None

\* SignedCallCache.getLeash
CacheGetLeash(leashes, chainId) == MapGet(leashes, chainId)

\* number of signatures held, over all signers
SigCount(sigs) ==
  LET RECURSIVE Sum(_)
      Sum(S) == IF S = {} THEN 0
                ELSE LET a == CHOOSE x \in S : TRUE
                     IN Cardinality(DOMAIN sigs[a]) + Sum(S \ {a})
  IN Sum(DOMAIN sigs)

-----------------------------------------------------------------------------
(* Inputs of SignedCallDataPack.make *)

NonceOverrides == {None, Some(0), Some(5)}
BlockOverrides == {None, Some([number |-> 100, hash |-> << 0, 0 >>])}
BlockRangeOverrides == {None, Some(5000)}
ChainIdOverrides == {None, Some(0), Some(2)}

\* overrides of the leash alone
LeashOverrides ==
  [nonce : NonceOverrides, block : BlockOverrides,
   blockRange : BlockRangeOverrides, chainId : {None}]

\* overrides of the chain id alone
ChainOverrides ==
  [nonce : {None}, block : {None}, blockRange : {None},
   chainId : ChainIdOverrides]

NoOverrides ==
  [nonce |-> None, block |-> None, blockRange |-> None, chainId |-> None]

\* the calls a signer makes: without a body and with a one-byte body
PlainCall(s) ==
  [from |-> Address(s), to |-> None, gas |-> None, gasLimit |-> None,
   gasPrice |-> None, value |-> None, data |-> None]

-----------------------------------------------------------------------------
(* State *)

\* make calls that may be in flight at once
Calls == {"c1", "c2"}

VARIABLES
  latest,            \* number of the chain's latest block
  pending,           \* pending transaction count of each signer's account
  cachedSignatures,  \* _cache.cachedSignatures: address -> (hash -> signature)
  cachedLeashes,     \* _cache.cachedLeashes: chain id -> Leash
  leashWriter,       \* history: for each cached leash, the call that stored it
  calls,             \* the frame of each make call: position and locals
  normIn,            \* argument of a stand-alone makeSignableCall
  normOut,           \* its outcome
  pack,              \* the SignedCallDataPack a caller holds
  packOrigin,        \* history: the data of the call the pack was made for
  taken,             \* history: how many packs the caller has taken
  plain,             \* history: encode() calls, with pack and result of each
  enc,               \* the frame of an encryptEncode call on a pack
  sol                \* the frame of a call into the Sapphire library

vars ==
  << latest, pending, cachedSignatures, cachedLeashes, leashWriter, calls,
     normIn, normOut, pack, packOrigin, taken, plain, enc, sol >>

cacheVars == << cachedSignatures, cachedLeashes, leashWriter >>
envVars == << latest, pending >>
normVars == << normIn, normOut >>
packVars == << pack, packOrigin, taken, plain, enc >>

\* the queries a make call sends to its signer and its provider
Queries == {"nonce", "latest", "anchor", "network", "address", "chain"}

\* what getBlock resolves to when the provider has no such block (null); no
\* block of the chain has an empty hash
NullBlock == [number |-> -1, hash |-> << >>]

\* message of the TypeError that reading block.number of null throws
ErrNullBlock == "cannot read properties of null (reading number)"

\* the frame of a call that has not started; a frame whose pc is "exited"
\* belongs to a process that an unhandled rejection has ended
IdleCall ==
  [pc |-> "idle", signer |-> "A", provider |-> TRUE, ov |-> NoOverrides,
   call |-> PlainCall("A"),
   nonce |-> None,        \* makeLeash: resolved nonce
   anchor |-> None,       \* makeLeash: height asked of getBlock(latest - 2)
   block |-> None,        \* makeLeash: resolved block
   cachedLeash |-> None,  \* makeLeash: result of _cache.getLeash
   cachedBy |-> None,     \* history: the call that had stored cachedLeash
   path |-> "",           \* history: the branch makeLeash returned from
   evicted |-> 0,         \* history: leashes this call's clear() removed
   leash |-> None,        \* make: the leash makeLeash returned
   chainId |-> None,      \* signCall: resolved chain id
   hit |-> None,          \* signCall: result of _cache.get
   signature |-> None,    \* signCall: the signature returned
   nsign |-> 0,           \* history: signing requests made to the signer
   asked |-> [q \in Queries |-> 0],  \* history: queries sent, by kind
   \* makeLeash: the promise of the pending-nonce query while nothing awaits
   \* it: "rejected" (it rejected before Promise.all took it), "orphan" (it
   \* is outstanding and make has rejected), "" otherwise
   loose |-> "",
   err |-> ""]            \* message of the error the call rejected with

\* messages of the errors the source throws
ErrNoProvider == "sapphire.wrap-ped signer was not connected to a provider"
ErrNoLatest == "unable to get latest block"
ErrNoChainId == "must either connect provider or provide manual chainId override"

\* a call that rejected: its frame is gone, what stays is what it was called
\* with, the error, the signing requests it made, and the pending-nonce
\* query (signed_calls.ts:185-187) when the call rejected before Promise.all
\* (line 202) took its promise and the query is still outstanding
Failed(r, msg) ==
  [IdleCall EXCEPT !.pc = "failed", !.err = msg, !.signer = r.signer,
                   !.provider = r.provider, !.ov = r.ov, !.call = r.call,
                   !.nsign = r.nsign, !.evicted = r.evicted,
                   !.asked = r.asked,
                   !.loose = IF /\ r.pc \in {"idle", "latest"}
                                /\ r.asked["nonce"] = 1
                                /\ IsNone(r.nonce)
                                /\ r.loose = ""
                             THEN "orphan" ELSE ""]

\* the process has not exited
Running == \A c \in Calls : calls[c].pc # "exited"

\* the call sends query q
Ask(r, q) == [r EXCEPT !.asked[q] = @ + 1]

\* a plausible slip: the signable call built with the leash the cache holds
\* for the chain at that moment, when it holds one
SignableFromCache(r) ==
  makeSignableCall(r.call,
                   IF MapHas(cachedLeashes, ProviderChain)
                   THEN cachedLeashes[ProviderChain] ELSE Val(r.leash))

\* the SignableEthCall a call signs once its leash is known
Signable(r) == makeSignableCall(r.call, Val(r.leash))

\* the SignedCallDataPack a finished call returns (signed_calls.ts:121-127)
Pack(r) ==
  [leash |-> Val(r.leash),
   signature |-> Val(r.signature),
   data |-> IF TruthyData(r.call.data)
            THEN Some(parseBytesLike(Val(r.call.data))) ELSE None]

\* what the history keeps of the call that stores a leash
WriterOf(r) ==
  [signer |-> r.signer,
   kind |-> IF IsSome(r.ov.nonce) \/ IsSome(r.ov.block) THEN "forced"
            ELSE IF IsSome(r.ov.blockRange) THEN "range"
            ELSE "plain",
   \* the leash's nonce and block both came from the signer and the chain
   live |-> ~Truthy(r.ov.nonce) /\ IsNone(r.ov.block),
   \* the leash makeLeash returned to the call
   leash |-> Val(r.leash)]

\* a plausible slip: a clear that drops the signatures and keeps the leashes
ClearedSignaturesOnly ==
  /\ cachedSignatures' = EmptyMap
  /\ UNCHANGED << sol, cachedLeashes, leashWriter >>

\* a plausible slip: a clear that drops the leashes and keeps the signatures
ClearedLeashesOnly ==
  /\ cachedSignatures' = cachedSignatures
  /\ cachedLeashes' = EmptyMap
  /\ leashWriter' = EmptyMap

\* SignedCallCache.clear (signed_calls.ts:34-37)
ClearedCache ==
  /\ cachedSignatures' = EmptyMap
  /\ cachedLeashes' = EmptyMap
  /\ leashWriter' = EmptyMap

-----------------------------------------------------------------------------
(* makeLeash *)

\* a plausible slip: the block read with `block?.number`, so that a null
\* block gives a leash instead of a TypeError
AfterAllOptionalBlock(r) ==
  IF ConsultsCache(r.ov)
  THEN IF ~r.provider
       THEN Failed(r, ErrNoProvider)
       ELSE Ask([r EXCEPT !.pc = "network"], "network")
  ELSE [r EXCEPT !.pc = "leashed", !.path = "override",
                 !.leash = Some(FreshLeash(r.ov, Val(r.nonce), Val(r.block)))]

\* signed_calls.ts:202-206 and 229-234: what follows Promise.all once the
\* nonce and the block are both resolved.  With a nonce or block override the
\* fresh leash is returned to make, which resumes in a later job; otherwise
\* the provider is asked for the network.
AfterAll(r) ==
  IF ConsultsCache(r.ov)
  THEN IF ~r.provider
       THEN Failed(r, ErrNoProvider)
       ELSE Ask([r EXCEPT !.pc = "network"], "network")
  ELSE IF Val(r.block) = NullBlock
       THEN Failed(r, ErrNullBlock)
       ELSE [r EXCEPT !.pc = "leashed", !.path = "override",
                      !.leash = Some(FreshLeash(r.ov, Val(r.nonce),
                                                Val(r.block)))]

\* a plausible slip: the provider checked only when the nonce must be fetched
StartFrameNonceOnly(s, prov, ov, ecall) ==
  LET r0 == [IdleCall EXCEPT
               !.signer = s, !.provider = prov, !.ov = ov, !.call = ecall,
               !.nonce = IF Truthy(ov.nonce) THEN ov.nonce ELSE None,
               !.block = ov.block]
      r == IF Truthy(ov.nonce) THEN r0 ELSE Ask(r0, "nonce")
  IN IF IsSome(ov.block)
     THEN [r EXCEPT !.pc = "all"]
     ELSE IF ~prov /\ IsNone(r.nonce)
          THEN Failed(r, ErrNoProvider)
          ELSE Ask([r EXCEPT !.pc = "latest"], "latest")

\* a plausible slip: the pending nonce not queried before the first await
StartFrameLazyNonce(s, prov, ov, ecall) ==
  LET r == [IdleCall EXCEPT
              !.signer = s, !.provider = prov, !.ov = ov, !.call = ecall,
              !.nonce = IF Truthy(ov.nonce) THEN ov.nonce ELSE None,
              !.block = ov.block]
  IN IF IsSome(ov.block)
     THEN [r EXCEPT !.pc = "all"]
     ELSE IF ~prov
          THEN Failed(r, ErrNoProvider)
          ELSE Ask([r EXCEPT !.pc = "latest"], "latest")

\* signed_calls.ts:178-202: make is called; makeLeash runs up to its first
\* await, which with a block override is the await of Promise.all.  A nonce
\* override that is 0 counts as an override for the clear but not for the
\* nonce: the pending nonce is queried.
StartFrame(s, prov, ov, ecall) ==
  LET r0 == [IdleCall EXCEPT
               !.signer = s, !.provider = prov, !.ov = ov, !.call = ecall,
               !.nonce = IF Truthy(ov.nonce) THEN ov.nonce ELSE None,
               !.block = ov.block]
      r == IF Truthy(ov.nonce) THEN r0 ELSE Ask(r0, "nonce")
  IN IF IsSome(ov.block)
     THEN [r EXCEPT !.pc = "all"]
     ELSE IF ~prov
          THEN Failed(r, ErrNoProvider)
          ELSE Ask([r EXCEPT !.pc = "latest"], "latest")

Start(c, s, prov, ov, ecall) ==
  /\ calls[c].pc = "idle"
  /\ IF ClearsUpFront(ov)
     THEN ClearedCache
     ELSE UNCHANGED cacheVars
  /\ calls' = [calls EXCEPT ![c] =
       [StartFrame(s, prov, ov, ecall) EXCEPT
          !.evicted = IF ClearsUpFront(ov)
                      THEN Cardinality(DOMAIN cachedLeashes) ELSE 0]]
  /\ UNCHANGED << sol, envVars, normVars, packVars >>

\* signed_calls.ts:196-202: the query of the latest block settles: with the
\* block ("block"), and the block two below it is requested; with null
\* ("null"); or it rejects ("rejected") and make rejects with its error.
\* When the block two below is requested and the nonce query has rejected
\* already, Promise.all (line 202) rejects at once with the nonce's failure.
LatestResp(c, res) ==
  /\ calls[c].pc = "latest"
  /\ calls' = [calls EXCEPT ![c] =
       IF res = "block"
       THEN LET r == Ask([@ EXCEPT !.pc = "all",
                                   !.anchor = Some(latest - 2)], "anchor")
            IN IF r.loose = "rejected"
               THEN Failed(r, "getTransactionCount failed")
               ELSE r
       ELSE IF res = "rejected" THEN Failed(@, "getBlock failed")
       ELSE Failed(@, ErrNoLatest)]
  /\ UNCHANGED << sol, envVars, cacheVars, normVars, packVars >>

\* signed_calls.ts:202: Promise.all over a nonce and a block that were both
\* given as overrides resolves, and makeLeash resumes
AllResolved(c) ==
  /\ calls[c].pc = "all"
  /\ IsSome(calls[c].nonce)
  /\ IsSome(calls[c].block)
  /\ calls' = [calls EXCEPT ![c] = AfterAll(@)]
  /\ UNCHANGED << sol, envVars, cacheVars, normVars, packVars >>

\* signed_calls.ts:185-187: the pending transaction count arrives; the query
\* was issued when the call started.  A call that has already rejected takes
\* no notice of it.
NonceResp(c) ==
  /\ \/ /\ calls[c].pc \in {"latest", "all"}
        /\ IsNone(calls[c].nonce)
        /\ calls[c].loose = ""
     \/ /\ calls[c].pc = "failed"
        /\ calls[c].loose = "orphan"
  /\ LET r == [calls[c] EXCEPT !.nonce = Some(pending[calls[c].signer])]
     IN calls' = [calls EXCEPT ![c] =
          IF r.pc = "failed" THEN [@ EXCEPT !.loose = ""]
          ELSE IF r.pc = "all" /\ IsSome(r.block) THEN AfterAll(r) ELSE r]
  /\ UNCHANGED << sol, envVars, cacheVars, normVars, packVars >>

\* signed_calls.ts:202: the pending-nonce query fails and Promise.all, which
\* awaits it, rejects
NonceFail(c) ==
  /\ calls[c].pc = "all"
  /\ IsNone(calls[c].nonce)
  /\ calls[c].loose = ""
  /\ calls' = [calls EXCEPT ![c] = Failed(@, "getTransactionCount failed")]
  /\ UNCHANGED << sol, envVars, cacheVars, normVars, packVars >>

\* signed_calls.ts:185-187, 196: the pending-nonce query fails while nothing
\* awaits its promise: makeLeash awaits the latest block, or make has already
\* rejected (lines 192, 197).  The rejection is unhandled: the host ends the
\* process (node's default), and no call goes on; or it only reports the
\* rejection, which Promise.all meets when makeLeash gets there (LatestResp).
NonceFailUnhandled(c, exits) ==
  /\ \/ /\ calls[c].pc = "latest"
        /\ IsNone(calls[c].nonce)
        /\ calls[c].loose = ""
     \/ /\ calls[c].pc = "failed"
        /\ calls[c].loose = "orphan"
  /\ calls' =
       IF exits
       THEN [d \in Calls |-> [calls[d] EXCEPT !.pc = "exited"]]
       ELSE [calls EXCEPT ![c] =
               [@ EXCEPT !.loose = IF calls[c].pc = "latest" THEN "rejected"
                                   ELSE ""]]
  /\ UNCHANGED << sol, envVars, cacheVars, normVars, packVars >>

\* signed_calls.ts:198-202: the block at latest - 2 arrives, or the query fails
AnchorResp(c, ok) ==
  /\ calls[c].pc = "all"
  /\ IsNone(calls[c].block)
  /\ calls[c].loose = ""
  /\ LET r == [calls[c] EXCEPT !.block = Some(BlockAt(Val(calls[c].anchor)))]
     IN calls' = [calls EXCEPT ![c] =
          IF ~ok THEN Failed(@, "getBlock failed")
          ELSE IF IsSome(r.nonce) THEN AfterAll(r) ELSE r]
  /\ UNCHANGED << sol, envVars, cacheVars, normVars, packVars >>

\* signed_calls.ts:198-202: the provider has no block at latest - 2 and
\* resolves the query to null
AnchorNull(c) ==
  /\ calls[c].pc = "all"
  /\ IsNone(calls[c].block)
  /\ calls[c].loose = ""
  /\ LET r == [calls[c] EXCEPT !.block = Some(NullBlock)]
     IN calls' = [calls EXCEPT ![c] =
          IF IsSome(r.nonce) THEN AfterAll(r) ELSE r]
  /\ UNCHANGED << sol, envVars, cacheVars, normVars, packVars >>

\* signed_calls.ts:211-234: the network arrives; the cached leash of the chain
\* is returned, or the cache is cleared and a fresh leash is returned, to
\* make, which resumes in a later job
LeashNetworkResp(c, ok) ==
  /\ calls[c].pc = "network"
  /\ LET r == calls[c]
         cached == CacheGetLeash(cachedLeashes, ProviderChain)
         null == Val(r.block) = NullBlock
         \* with a null block the test throws once it reads block.number
         reuse == /\ IsSome(cached)
                  /\ ~null
                  /\ Reusable(Val(cached), Val(r.nonce), Val(r.block),
                              BlockRangeOf(r.ov))
         clears == /\ IsSome(cached)
                   /\ IF null THEN ~(Val(cached).nonce > Val(r.nonce))
                      ELSE ~reuse
         evicted == IF clears THEN Cardinality(DOMAIN cachedLeashes) ELSE 0
     IN IF ~ok
        THEN /\ calls' = [calls EXCEPT ![c] = Failed(@, "getNetwork failed")]
             /\ UNCHANGED cacheVars
        ELSE /\ calls' = [calls EXCEPT ![c] =
                  IF null
                  THEN Failed([@ EXCEPT !.evicted = evicted], ErrNullBlock)
                  ELSE [@ EXCEPT !.pc = "leashed",
                                 !.cachedLeash = cached,
                                 !.cachedBy = MapGet(leashWriter,
                                                     ProviderChain),
                                 !.path = IF reuse THEN "reused"
                                          ELSE IF IsSome(cached)
                                               THEN "rebuilt"
                                               ELSE "fresh",
                                 !.evicted = evicted,
                                 !.leash = IF reuse THEN cached
                                           ELSE Some(FreshLeash(
                                                  r.ov, Val(r.nonce),
                                                  Val(r.block)))]]
             /\ IF clears
                THEN ClearedCache
                ELSE UNCHANGED cacheVars
  /\ UNCHANGED << sol, envVars, normVars, packVars >>

-----------------------------------------------------------------------------
(* signCall *)

\* signed_calls.ts:120-123 and 261: make resumes with the leash makeLeash
\* returned and calls signCall, which asks the signer for its address
MakeLeashReturned(c) ==
  /\ calls[c].pc = "leashed"
  /\ calls' = [calls EXCEPT ![c] = Ask([@ EXCEPT !.pc = "address"], "address")]
  /\ UNCHANGED << sol, envVars, cacheVars, normVars, packVars >>

\* a plausible slip: line 281 restored, a hit is returned without signing
ReturnsCachedOnHit(hit) == TRUE

\* signed_calls.ts:280-281: the cached signature is looked up, and the line
\* that would return it is commented out
ReturnsCached(hit) == FALSE

\* signed_calls.ts:272-290: with the chain id known, the hash is computed, the
\* cache is looked up and the signer is asked to sign
RequestSign(r, chain) ==
  LET hit == CacheGet(cachedSignatures, Address(r.signer),
                      CallHash(chain, Signable(r)))
  IN IF IsSome(hit) /\ ReturnsCached(hit)
     THEN [r EXCEPT !.pc = "done", !.chainId = Some(chain), !.hit = hit,
                    !.signature = hit]
     ELSE [r EXCEPT !.pc = "signing", !.chainId = Some(chain), !.hit = hit,
                    !.nsign = @ + 1]

\* signed_calls.ts:261-271: the signer's address arrives; the chain id is the
\* override if that is truthy, else the provider is asked for the network
AddressResp(c, ok) ==
  /\ calls[c].pc = "address"
  /\ calls' = [calls EXCEPT ![c] =
       IF ~ok THEN Failed(@, "getAddress failed")
       ELSE IF Truthy(@.ov.chainId) THEN RequestSign(@, Val(@.ov.chainId))
       ELSE IF @.provider THEN Ask([@ EXCEPT !.pc = "chainid"], "chain")
       ELSE Failed(@, ErrNoChainId)]
  /\ UNCHANGED << sol, envVars, cacheVars, normVars, packVars >>

\* signed_calls.ts:266: the network arrives
SignNetworkResp(c, ok) ==
  /\ calls[c].pc = "chainid"
  /\ calls' = [calls EXCEPT ![c] =
       IF ok THEN RequestSign(@, ProviderChain)
       ELSE Failed(@, "getNetwork failed")]
  /\ UNCHANGED << sol, envVars, cacheVars, normVars, packVars >>

\* a plausible slip: the leash cached before the signature is awaited, so that
\* a refused signature leaves it behind
SignRespLeashFirst(c, ok, salt) ==
  /\ calls[c].pc = "signing"
  /\ LET r == calls[c]
         address == Address(r.signer)
         chain == Val(r.chainId)
         hash == CallHash(chain, Signable(r))
         signature == SignatureOf(address, hash, salt)
     IN /\ calls' = [calls EXCEPT ![c] =
             IF ok THEN [@ EXCEPT !.pc = "done", !.signature = Some(signature)]
             ELSE Failed(@, "signTypedData failed")]
        /\ cachedSignatures' =
             IF ok THEN CacheSignature(cachedSignatures, address, hash,
                                       signature)
             ELSE cachedSignatures
        /\ cachedLeashes' = CacheLeash(cachedLeashes, chain, Signable(r))
        /\ leashWriter' = MapSet(leashWriter, chain, WriterOf(r))
  /\ UNCHANGED << sol, envVars, normVars, packVars >>

\* signed_calls.ts:282-292 and 121-127: the signature arrives, or the signer
\* refuses; the cache is filled and make returns the pack
SignResp(c, ok, salt) ==
  /\ calls[c].pc = "signing"
  /\ LET r == calls[c]
         address == Address(r.signer)
         chain == Val(r.chainId)
         hash == CallHash(chain, Signable(r))
         signature == SignatureOf(address, hash, salt)
     IN IF ~ok
        THEN /\ calls' = [calls EXCEPT ![c] = Failed(@, "signTypedData failed")]
             /\ UNCHANGED cacheVars
        ELSE /\ calls' = [calls EXCEPT ![c] =
                  [@ EXCEPT !.pc = "done", !.signature = Some(signature)]]
             /\ cachedSignatures' =
                  CacheSignature(cachedSignatures, address, hash, signature)
             /\ cachedLeashes' = CacheLeash(cachedLeashes, chain, Signable(r))
             /\ leashWriter' = MapSet(leashWriter, chain, WriterOf(r))
  /\ UNCHANGED << sol, envVars, normVars, packVars >>

\* the caller has taken the result and no query of the call is outstanding;
\* the frame is free for the next call
Finish(c) ==
  /\ calls[c].pc \in {"done", "failed"}
  /\ calls[c].loose # "orphan"
  /\ calls' = [calls EXCEPT ![c] = IdleCall]
  /\ UNCHANGED << sol, envVars, cacheVars, normVars, packVars >>

-----------------------------------------------------------------------------
(* The chain and the accounts move on their own *)

AdvanceChain(h) ==
  /\ h \in Heights
  /\ h > latest
  /\ latest' = h
  /\ UNCHANGED << sol, pending, cacheVars, calls, normVars, packVars >>

AdvancePending(s, n) ==
  /\ n \in PendingValues
  /\ n > pending[s]
  /\ pending' = [pending EXCEPT ![s] = n]
  /\ UNCHANGED << sol, latest, cacheVars, calls, normVars, packVars >>

-----------------------------------------------------------------------------------------------------------------------------------------------------
(* Stand-alone makeSignableCall *)

Normalize ==
  /\ Running
  /\ IsSome(normIn)
  /\ IsNone(normOut)
  /\ normOut' = Some(makeSignableCall(Val(normIn).call, Val(normIn).leash))
  /\ UNCHANGED << sol, envVars, cacheVars, calls, normIn, packVars >>

-----------------------------------------------------------------------------
(* SignedCallDataPack: encode and encryptEncode *)

\* signed_calls.ts:153-161: the record #encode hands to cbor.encode, as the
\* sequence of its keys and values in the order written; a key whose value is
\* undefined carries None
EncodeRecord(data, p) ==
  << << "data", data >>,
     << "leash", Some(p.leash) >>,
     << "signature", Some(p.signature) >> >>

\* signed_calls.ts:143-145: encode; a Uint8Array is truthy whatever its length
encode(p) ==
  EncodeRecord(IF IsSome(p.data) THEN Some([body |-> Val(p.data)]) ELSE None,
               p)

\* what cipher.encryptEnvelope returns for a plaintext; n stands for the
\* cipher's nonce
Envelope(plaintext, n) ==
  [format |-> 1,
   body |-> [nonce |-> n,
             data |-> [i \in 1..Len(plaintext) |->
                         (plaintext[i] + n + 1) % 256]]]

CipherNonces == {0, 1}

\* no encryptEncode call has been made
IdleEnc == [pc |-> "idle", pack |-> None, origin |-> None, ncipher |-> 0,
            arg |-> None, out |-> None]

NoEncodes == [n |-> 0, outs |-> {}]

\* the caller takes the pack make returned and keeps it in place of the one
\* it held; an encryptEncode() under way on the earlier pack goes on
Take(c) ==
  /\ calls[c].pc = "done"
  /\ taken < MaxTakes
  /\ pack' = Some(Pack(calls[c]))
  /\ packOrigin' = calls[c].call.data
  /\ taken' = taken + 1
  /\ calls' = [calls EXCEPT ![c] = IdleCall]
  /\ UNCHANGED << sol, envVars, cacheVars, normVars, plain, enc >>

\* a plausible slip: an encoder that hands its body over and drops it
EncodeConsuming ==
  /\ Running
  /\ IsSome(pack)
  /\ plain.n < MaxEncodes
  /\ plain' = [n |-> plain.n + 1,
               outs |-> plain.outs \cup
                          {[pack |-> pack, origin |-> packOrigin,
                            out |-> encode(Val(pack))]}]
  /\ pack' = Some([Val(pack) EXCEPT !.data = None])
  /\ UNCHANGED << sol, envVars, cacheVars, calls, normVars, packOrigin, taken, enc >>

\* pack.encode() (signed_calls.ts:143-145)
Encode ==
  /\ Running
  /\ IsSome(pack)
  /\ plain.n < MaxEncodes
  /\ plain' = [n |-> plain.n + 1,
               outs |-> plain.outs \cup
                          {[pack |-> pack, origin |-> packOrigin,
                            out |-> encode(Val(pack))]}]
  /\ UNCHANGED << sol, envVars, cacheVars, calls, normVars, pack, packOrigin, taken,
                  enc >>

\* a plausible slip: the cipher asked for an envelope of a pack without data
EncryptEncodeAlways ==
  /\ Running
  /\ IsSome(pack)
  /\ enc.pc # "cipher"
  /\ enc' = [pc |-> "cipher", pack |-> pack, origin |-> packOrigin,
             ncipher |-> 1,
             arg |-> IF IsSome(Val(pack).data) THEN Val(pack).data
                     ELSE Some(<< >>),
             out |-> None]
  /\ UNCHANGED << sol, envVars, cacheVars, calls, normVars, pack, packOrigin,
                  taken, plain >>

\* pack.encryptEncode(cipher) up to its await (signed_calls.ts:148-151): with
\* data the cipher is asked for an envelope, without it encode() is returned
EncryptEncode ==
  /\ Running
  /\ IsSome(pack)
  /\ enc.pc # "cipher"
  /\ enc' = IF IsSome(Val(pack).data)
            THEN [pc |-> "cipher", pack |-> pack, origin |-> packOrigin,
                  ncipher |-> 1, arg |-> Val(pack).data, out |-> None]
            ELSE [pc |-> "done", pack |-> pack, origin |-> packOrigin,
                  ncipher |-> 0, arg |-> None,
                  out |-> Some(encode(Val(pack)))]
  /\ UNCHANGED << sol, envVars, cacheVars, calls, normVars, pack, packOrigin,
                  taken, plain >>

\* signed_calls.ts:149 and 153-161: the envelope arrives and is encoded under
\* `data`, or the cipher fails and encryptEncode rejects
CipherResp(ok, n) ==
  /\ Running
  /\ enc.pc = "cipher"
  /\ enc' = IF ok
            THEN [enc EXCEPT !.pc = "done",
                             !.out = Some(EncodeRecord(
                                            Some(Envelope(Val(enc.arg), n)),
                                            Val(enc.pack)))]
            ELSE [enc EXCEPT !.pc = "failed"]
  /\ UNCHANGED << sol, envVars, cacheVars, calls, normVars, pack, packOrigin,
                  taken, plain >>

-----------------------------------------------------------------------------
(* contracts/Sapphire.sol: the wrappers of the Sapphire precompiles.       *)
(* `bytes` and `bytes32` values are sequences of bytes (0..255); byte i of *)
(* the source is element i + 1 here.                                       *)

\* the addresses of the precompiles
Precompiles ==
  [RANDOM_BYTES |-> "0x0100000000000000000000000000000000000001",
   DERIVE_KEY |-> "0x0100000000000000000000000000000000000002",
   ENCRYPT |-> "0x0100000000000000000000000000000000000003",
   DECRYPT |-> "0x0100000000000000000000000000000000000004",
   GENERATE_SIGNING_KEYPAIR |-> "0x0100000000000000000000000000000000000005",
   SIGN_DIGEST |-> "0x0100000000000000000000000000000000000006",
   VERIFY_DIGEST |-> "0x0100000000000000000000000000000000000007",
   CURVE25519_PUBLIC_KEY |-> "0x0100000000000000000000000000000000000008",
   GAS_USED |-> "0x0100000000000000000000000000000000000009",
   PAD_GAS |-> "0x010000000000000000000000000000000000000a",
   SHA512_256 |-> "0x0100000000000000000000000000000000000101",
   SHA512 |-> "0x0100000000000000000000000000000000000102",
   SHA384 |-> "0x0100000000000000000000000000000000000104"]

\* n bytes of value b
Fill(n, b) == [i \in 1..n |-> b]

\* the operators & and | of Solidity on two bytes
RECURSIVE BitAnd(_, _)
BitAnd(a, b) ==
  IF a = 0 \/ b = 0 THEN 0
  ELSE (a % 2) * (b % 2) + 2 * BitAnd(a \div 2, b \div 2)

RECURSIVE BitOr(_, _)
BitOr(a, b) ==
  IF a = 0 THEN b
  ELSE IF b = 0 THEN a
  ELSE (IF a % 2 = 1 \/ b % 2 = 1 THEN 1 ELSE 0)
       + 2 * BitOr(a \div 2, b \div 2)

\* bytes32(b) of a `bytes memory` b: its first 32 bytes, padded with zero
\* bytes on the right when b is shorter
Bytes32(b) == [i \in 1..32 |-> IF i <= Len(b) THEN b[i] ELSE 0]

\* one 32-byte word of ABI-encoded data, starting at byte offset `at`
WordAt(blob, at) == SubSeq(blob, at + 1, at + 32)

\* the word that encodes the number n (n < 65536 is all that is used here)
Word(n) ==
  [i \in 1..32 |-> IF i = 31 THEN n \div 256 ELSE IF i = 32 THEN n % 256 ELSE 0]

\* a word read as an offset or a length: None when it exceeds 65535, which
\* is beyond the end of every blob considered
WordNum(w) ==
  IF \A i \in 1..30 : w[i] = 0 THEN Some(256 * w[31] + w[32]) ELSE None

\* b padded with zero bytes to a multiple of 32 bytes
Pad32(b) == b \o Fill((32 - (Len(b) % 32)) % 32, 0)

\* abi.encode of a bool, a uint64 (given by its 8 bytes, big-endian) and a
\* pair of `bytes`, as the precompiles produce them
AbiEncodeBool(v) == Word(IF v THEN 1 ELSE 0)
AbiEncodeUint64(v) == Fill(24, 0) \o v
AbiEncodeBytesBytes(a, b) ==
  Word(64) \o Word(96 + Len(Pad32(a)))
  \o Word(Len(a)) \o Pad32(a) \o Word(Len(b)) \o Pad32(b)

\* The decoders of abi.decode (Solidity 0.8, ABI coder v2) yield the value,
\* or no value and the reason the decoder reverts with: none (""), or
\* Panic(0x41) when memory for an array cannot be allocated.

\* a plausible slip: a decoder that takes every word but 0 for true
AbiDecodeBoolLoose(v) ==
  IF Len(v) < 32 THEN [value |-> None, reason |-> ""]
  ELSE [value |-> Some(WordAt(v, 0) # Word(0)), reason |-> ""]

\* abi.decode(v, (bool)): reverts unless there are 32 bytes and the first
\* word is 0 or 1; bytes after the first word are not looked at
AbiDecodeBool(v) ==
  IF Len(v) < 32 THEN [value |-> None, reason |-> ""]
  ELSE LET w == WordAt(v, 0) IN
       IF (\A i \in 1..31 : w[i] = 0) /\ w[32] \in {0, 1}
       THEN [value |-> Some(w[32] = 1), reason |-> ""]
       ELSE [value |-> None, reason |-> ""]

\* abi.decode(v, (uint64)): the value as its 8 bytes, big-endian; reverts
\* unless there are 32 bytes and the first word is below 2^64
AbiDecodeUint64(v) ==
  IF Len(v) < 32 THEN [value |-> None, reason |-> ""]
  ELSE LET w == WordAt(v, 0) IN
       IF \A i \in 1..24 : w[i] = 0
       THEN [value |-> Some(SubSeq(w, 25, 32)), reason |-> ""]
       ELSE [value |-> None, reason |-> ""]

\* one dynamic `bytes` whose offset is the head word at `head`; `free` is the
\* free memory pointer when the decoder runs.  The decoder reverts when the
\* offset exceeds 2^64 - 1 or the length word lies beyond the data; it then
\* allocates 32 + length (rounded up to a word) bytes, with Panic(0x41) when
\* the length exceeds 2^64 - 1 or the new free pointer would; and only then
\* reverts when the bytes lie beyond the data.  Padding is not looked at.
AbiDecodeBytesAt(v, head, free) ==
  LET off == WordNum(WordAt(v, head)) IN
  IF IsNone(off) \/ Val(off) + 32 > Len(v)
  THEN [value |-> None, reason |-> "", free |-> free]
  ELSE LET w == WordAt(v, Val(off))
           n == WordNum(w)
           pad == (32 - (w[32] % 32)) % 32
           \* 2^64 - 1 - length, when that is below 2^31
           room == IF (\A i \in 25..28 : w[i] = 255) /\ w[29] >= 128
                   THEN Some((255 - w[29]) * 16777216 + (255 - w[30]) * 65536
                             + (255 - w[31]) * 256 + (255 - w[32]))
                   ELSE None
       IN IF \/ \E i \in 1..24 : w[i] # 0
             \/ IsSome(room) /\ free + pad + 32 > Val(room)
          THEN [value |-> None, reason |-> "Panic(0x41)", free |-> free]
          ELSE IF IsNone(n) \/ Val(off) + 32 + Val(n) > Len(v)
          THEN [value |-> None, reason |-> "", free |-> free]
          ELSE [value |-> Some(SubSeq(v, Val(off) + 33, Val(off) + 32 + Val(n))),
                reason |-> "", free |-> free + Val(n) + pad + 32]

\* abi.decode(v, (bytes, bytes)): reverts on fewer than 64 bytes, then
\* decodes the first and, when that succeeded, the second
AbiDecodeBytesBytes(v, free) ==
  IF Len(v) < 64 THEN [value |-> None, reason |-> ""]
  ELSE LET a == AbiDecodeBytesAt(v, 0, free) IN
       IF IsNone(a.value) THEN [value |-> None, reason |-> a.reason]
       ELSE LET b == AbiDecodeBytesAt(v, 32, a.free) IN
            IF IsNone(b.value) THEN [value |-> None, reason |-> b.reason]
            ELSE [value |-> Some(<< Val(a.value), Val(b.value) >>),
                  reason |-> ""]

\* abi.encode(..) of the arguments of a precompile: kept as the tuple it
\* encodes, since the library never reads its own call data back
AbiEncodeArgs(args) == [abi |-> args]

\* address.staticcall(input), as the library records it
StaticCall(to, input) == [to |-> to, input |-> input]

\* how a wrapper ends: `sent` are the static calls it made, in order
Reverted(reason, sent) ==
  [reverted |-> TRUE, reason |-> reason, value |-> None, sent |-> sent]
Returned(value, sent) ==
  [reverted |-> FALSE, reason |-> "", value |-> Some(value), sent |-> sent]
ReturnedNothing(sent) ==
  [reverted |-> FALSE, reason |-> "", value |-> None, sent |-> sent]
\* return abi.decode(..): the decoder's revert, or the value decoded
DecodeOr(decoded, sent) ==
  IF IsNone(decoded.value) THEN Reverted(decoded.reason, sent)
  ELSE Returned(Val(decoded.value), sent)

\* Each wrapper takes its arguments and `resp`, the [success, output] pair
\* its static call yields.

randomBytes(numBytes, pers, resp) ==
  LET sent ==
        << StaticCall(Precompiles.RANDOM_BYTES, AbiEncodeArgs(<< numBytes, pers >>)) >> IN
  IF ~resp.success THEN Reverted("randomBytes: failed", sent)
  ELSE Returned(resp.output, sent)

\* scalar[0] &= 0xf8; scalar[31] &= 0x7f; scalar[31] |= 0x40
ClampScalar(scalar) ==
  [scalar EXCEPT ![1] = BitAnd(@, 248), ![32] = BitOr(BitAnd(@, 127), 64)]

\* the CURVE25519_PUBLIC_KEY precompile: a stand-in for the X25519 base
\* point multiplication, one public key per input, of the input's length
PublicKeyOf(input) == [i \in 1..Len(input) |-> (input[Len(input) + 1 - i] + 9) % 256]
Curve25519Response(input, ok) ==
  IF ok THEN [success |-> TRUE, output |-> PublicKeyOf(input)]
  ELSE [success |-> FALSE, output |-> << >>]

\* a plausible slip: the public key is asked for before the bits are twiddled
generateCurve25519KeyPairLateClamp(pers, rnd, pkOk) ==
  LET r == randomBytes(32, pers, rnd) IN
  IF r.reverted THEN r
  ELSE IF Len(Val(r.value)) < 32 THEN Reverted("Panic(0x32)", r.sent)
  ELSE LET raw == Val(r.value)
           pkResp == Curve25519Response(raw, pkOk)
           sent == Append(r.sent, StaticCall(Precompiles.CURVE25519_PUBLIC_KEY, raw)) IN
       IF ~pkResp.success THEN Reverted("gen curve25519 pk: failed", sent)
       ELSE Returned(<< Bytes32(pkResp.output), Bytes32(ClampScalar(raw)) >>,
                     sent)

\* `rnd` is what RANDOM_BYTES yields, `pkOk` whether CURVE25519_PUBLIC_KEY
\* succeeds on the input it is given
generateCurve25519KeyPair(pers, rnd, pkOk) ==
  LET r == randomBytes(32, pers, rnd) IN
  IF r.reverted THEN r
  ELSE IF Len(Val(r.value)) < 32 THEN Reverted("Panic(0x32)", r.sent)
  ELSE LET scalar == ClampScalar(Val(r.value))
           pkResp == Curve25519Response(scalar, pkOk)
           sent == Append(r.sent, StaticCall(Precompiles.CURVE25519_PUBLIC_KEY, scalar)) IN
       IF ~pkResp.success THEN Reverted("gen curve25519 pk: failed", sent)
       ELSE Returned(<< Bytes32(pkResp.output), Bytes32(scalar) >>, sent)

deriveSymmetricKey(peerPublicKey, secretKey, resp) ==
  LET sent ==
        << StaticCall(Precompiles.DERIVE_KEY,
                      AbiEncodeArgs(<< peerPublicKey, secretKey >>)) >> IN
  IF ~resp.success THEN Reverted("deriveSymmetricKey: failed", sent)
  ELSE Returned(Bytes32(resp.output), sent)

encrypt(key, nonce, plaintext, additionalData, resp) ==
  LET sent ==
        << StaticCall(Precompiles.ENCRYPT,
             AbiEncodeArgs(<< key, nonce, plaintext, additionalData >>)) >> IN
  IF ~resp.success THEN Reverted("encrypt: failed", sent)
  ELSE Returned(resp.output, sent)

decrypt(key, nonce, ciphertext, additionalData, resp) ==
  LET sent ==
        << StaticCall(Precompiles.DECRYPT,
             AbiEncodeArgs(<< key, nonce, ciphertext, additionalData >>)) >> IN
  IF ~resp.success THEN Reverted("decrypt: failed", sent)
  ELSE Returned(resp.output, sent)

\* `free` is the free memory pointer when the output is decoded
generateSigningKeyPair(alg, seed, resp, free) ==
  LET sent ==
        << StaticCall(Precompiles.GENERATE_SIGNING_KEYPAIR,
                      AbiEncodeArgs(<< alg, seed >>)) >> IN
  IF ~resp.success THEN Reverted("gen signing keypair: failed", sent)
  ELSE DecodeOr(AbiDecodeBytesBytes(resp.output, free), sent)

sign(alg, secretKey, contextOrHash, message, resp) ==
  LET sent ==
        << StaticCall(Precompiles.SIGN_DIGEST,
             AbiEncodeArgs(<< alg, secretKey, contextOrHash, message >>)) >> IN
  IF ~resp.success THEN Reverted("sign: failed", sent)
  ELSE Returned(resp.output, sent)

verify(alg, publicKey, contextOrHash, message, signature, resp) ==
  LET sent ==
        << StaticCall(Precompiles.VERIFY_DIGEST,
             AbiEncodeArgs(<< alg, publicKey, contextOrHash, message,
                              signature >>)) >> IN
  IF ~resp.success THEN Reverted("verify: failed", sent)
  ELSE DecodeOr(AbiDecodeBool(resp.output), sent)

padGas(toAmount, resp) ==
  LET sent == << StaticCall(Precompiles.PAD_GAS, AbiEncodeArgs(<< toAmount >>)) >> IN
  IF ~resp.success THEN Reverted("verify: failed", sent)
  ELSE ReturnedNothing(sent)

gasUsed(resp) ==
  LET sent == << StaticCall(Precompiles.GAS_USED, << >>) >> IN
  IF ~resp.success THEN Reverted("gasused: failed", sent)
  ELSE DecodeOr(AbiDecodeUint64(resp.output), sent)

sha512_256(input, resp) ==
  LET sent == << StaticCall(Precompiles.SHA512_256, input) >> IN
  IF ~resp.success THEN Reverted("sha512_256", sent)
  ELSE Returned(Bytes32(resp.output), sent)

sha512(input, resp) ==
  LET sent == << StaticCall(Precompiles.SHA512, input) >> IN
  IF ~resp.success THEN Reverted("sha512", sent)
  ELSE Returned(resp.output, sent)

sha384(input, resp) ==
  LET sent == << StaticCall(Precompiles.SHA384, input) >> IN
  IF ~resp.success THEN Reverted("sha384", sent)
  ELSE Returned(resp.output, sent)

\* What the precompiles answer.  A failed static call may carry return
\* data.  The library takes whatever a successful call returns: outputs of
\* the precompile's format, and outputs that are shorter, longer or not a
\* well-formed encoding.
Ok(output) == [success |-> TRUE, output |-> output]
FailedResponses ==
  {[success |-> FALSE, output |-> o] : o \in {<< >>, << 8, 195, 121, 160 >>}}
\* n bytes b+1, b+2, ..
Ramp(n, b) == [i \in 1..n |-> (b + i) % 256]

SolBytes == {<< >>, << 1 >>, << 222, 173 >>}
SolKeys == {Ramp(32, 0), Fill(32, 255)}
SigningAlgs == {0, 5}

\* 32 random bytes: the ends take the values that matter to the clamping
RandomScalars ==
  {[i \in 1..32 |-> IF i = 1 THEN b0 ELSE IF i = 32 THEN b31 ELSE (m + i) % 256] :
     b0 \in {0, 7, 8, 255}, b31 \in {0, 63, 64, 127, 128, 255}, m \in {0, 170}}

\* values of the free memory pointer when generateSigningKeyPair decodes
FreePointers == {512, 8192}

\* the answers of the precompile behind wrapper fn; arg is the number of
\* bytes asked of RANDOM_BYTES, the text handed to ENCRYPT or DECRYPT.
\* SigningKeyOutputs are the outputs of GENERATE_SIGNING_KEYPAIR: encodings
\* of two keys, well-formed, with bytes after the end, and with both offsets
\* on one unpadded key; too few bytes; an offset beyond the data and one of
\* 2^64; a length beyond the data, and lengths of 2^64, 2^64 - 1 and
\* 2^64 - 1001, in the first and in the second key
PrecompileResponses(fn, arg) ==
  LET Huge == [i \in 1..32 |-> IF i = 24 THEN 1 ELSE 0]
      Max64 == Fill(24, 0) \o Fill(8, 255)
      Near64 == Fill(24, 0) \o Fill(6, 255) \o << 252, 23 >>
      SigningKeyOutputs ==
        {AbiEncodeBytesBytes(pk, sk) :
           pk \in {Ramp(32, 1), Ramp(33, 2)},
           sk \in {Ramp(32, 7), Ramp(64, 200)}}
        \cup {AbiEncodeBytesBytes(Ramp(32, 1), Ramp(32, 7)) \o << 1, 2, 3 >>,
              Word(64) \o Word(64) \o Word(2) \o << 9, 8 >>,
              << >>,
              Ramp(63, 0),
              Word(64) \o Word(4096) \o Word(0),
              Huge \o Word(64) \o Word(0),
              Word(64) \o Word(64) \o Word(5) \o << 1 >>,
              Word(64) \o Word(64) \o Huge,
              Word(64) \o Word(64) \o Max64,
              Word(64) \o Word(64) \o Near64,
              Word(64) \o Word(96) \o Word(0) \o Huge,
              Word(64) \o Word(96) \o Word(0) \o Near64}
  IN
  FailedResponses \cup
  CASE fn = "randomBytes" ->
         {Ok(Ramp(arg, b)) : b \in {0, 100, 254}} \cup {Ok(Ramp(arg + 1, 7))}
    [] fn = "generateCurve25519KeyPair" ->
         {Ok(s) : s \in RandomScalars}
         \cup {Ok(<< >>), Ok(Ramp(31, 0)), Ok(Ramp(33, 250))}
    [] fn = "deriveSymmetricKey" ->
         {Ok(Ramp(32, b)) : b \in {0, 77, 250}}
         \cup {Ok(<< >>), Ok(Ramp(31, 3)), Ok(Ramp(33, 3))}
    [] fn \in {"encrypt", "decrypt"} ->
         {Ok(arg \o Ramp(16, 30)), Ok(Ramp(Len(arg), 9))}
    [] fn = "generateSigningKeyPair" -> {Ok(o) : o \in SigningKeyOutputs}
    [] fn = "sign" -> {Ok(Ramp(64, 5)), Ok(Ramp(71, 48))}
    [] fn = "verify" ->
         {Ok(AbiEncodeBool(b)) : b \in BOOLEAN}
         \cup {Ok(<< >>), Ok(Fill(31, 0)), Ok(Word(2)), Ok(Word(256)),
               Ok(Word(1) \o << 7 >>), Ok(Fill(32, 255))}
    [] fn = "padGas" -> {Ok(<< >>), Ok(<< 1 >>)}
    [] fn = "gasUsed" ->
         {Ok(AbiEncodeUint64(g)) :
            g \in {Fill(8, 0), << 0, 0, 0, 0, 0, 0, 82, 8 >>, Fill(8, 255)}}
         \cup {Ok(<< >>), Ok(Fill(31, 0)),
               Ok(Fill(23, 0) \o << 1 >> \o Fill(8, 0)),
               Ok(Word(21000) \o << 7 >>)}
    [] fn = "sha512_256" ->
         {Ok(Ramp(32, b)) : b \in {0, 131}}
         \cup {Ok(<< >>), Ok(Ramp(31, 3)), Ok(Ramp(64, 3))}
    [] fn = "sha512" -> {Ok(Ramp(64, b)) : b \in {0, 131}} \cup {Ok(<< >>)}
    [] fn = "sha384" -> {Ok(Ramp(48, b)) : b \in {0, 131}} \cup {Ok(<< >>)}

\* the frame of a call into the library: the wrapper, what its precompile
\* answered and how the wrapper ended
IdleSol ==
  [pc |-> "idle", fn |-> "", resp |-> Ok(<< >>), out |-> ReturnedNothing(<< >>)]

Frame(fn, resp, out) ==
  [pc |-> IF out.reverted THEN "reverted" ELSE "returned",
   fn |-> fn, resp |-> resp, out |-> out]

CallRandomBytes ==
  /\ sol.pc = "idle"
  /\ \E numBytes \in {0, 1, 32}, pers \in SolBytes :
       \E resp \in PrecompileResponses("randomBytes", numBytes) :
         sol' = Frame("randomBytes", resp, randomBytes(numBytes, pers, resp))
  /\ UNCHANGED << envVars, cacheVars, calls, normVars, packVars >>

CallGenerateCurve25519KeyPair ==
  /\ sol.pc = "idle"
  /\ \E pers \in SolBytes, rnd \in PrecompileResponses("generateCurve25519KeyPair", 32), pkOk \in BOOLEAN :
       sol' = Frame("generateCurve25519KeyPair", rnd,
              generateCurve25519KeyPair(pers, rnd, pkOk))
  /\ UNCHANGED << envVars, cacheVars, calls, normVars, packVars >>

CallDeriveSymmetricKey ==
  /\ sol.pc = "idle"
  /\ \E pk \in SolKeys, sk \in SolKeys, resp \in PrecompileResponses("deriveSymmetricKey", 0) :
       sol' = Frame("deriveSymmetricKey", resp, deriveSymmetricKey(pk, sk, resp))
  /\ UNCHANGED << envVars, cacheVars, calls, normVars, packVars >>

CallEncrypt ==
  /\ sol.pc = "idle"
  /\ \E key \in SolKeys, text \in SolBytes :
       \E resp \in PrecompileResponses("encrypt", text) :
         sol' = Frame("encrypt", resp, encrypt(key, Ramp(32, 40), text, << >>, resp))
  /\ UNCHANGED << envVars, cacheVars, calls, normVars, packVars >>

CallDecrypt ==
  /\ sol.pc = "idle"
  /\ \E key \in SolKeys, text \in SolBytes :
       \E resp \in PrecompileResponses("decrypt", text) :
         sol' = Frame("decrypt", resp, decrypt(key, Ramp(32, 40), text, << >>, resp))
  /\ UNCHANGED << envVars, cacheVars, calls, normVars, packVars >>

CallGenerateSigningKeyPair ==
  /\ sol.pc = "idle"
  /\ \E alg \in SigningAlgs, seed \in SolBytes, free \in FreePointers,
        resp \in PrecompileResponses("generateSigningKeyPair", 0) :
       sol' = Frame("generateSigningKeyPair", resp,
              generateSigningKeyPair(alg, seed, resp, free))
  /\ UNCHANGED << envVars, cacheVars, calls, normVars, packVars >>

CallSign ==
  /\ sol.pc = "idle"
  /\ \E alg \in SigningAlgs, message \in SolBytes, resp \in PrecompileResponses("sign", 0) :
       sol' = Frame("sign", resp, sign(alg, Ramp(32, 7), << >>, message, resp))
  /\ UNCHANGED << envVars, cacheVars, calls, normVars, packVars >>

CallVerify ==
  /\ sol.pc = "idle"
  /\ \E alg \in SigningAlgs, message \in SolBytes, resp \in PrecompileResponses("verify", 0) :
       sol' = Frame("verify", resp,
              verify(alg, Ramp(32, 1), << >>, message, Ramp(64, 5), resp))
  /\ UNCHANGED << envVars, cacheVars, calls, normVars, packVars >>

CallPadGas ==
  /\ sol.pc = "idle"
  /\ \E toAmount \in {0, 21000}, resp \in PrecompileResponses("padGas", 0) :
       sol' = Frame("padGas", resp, padGas(toAmount, resp))
  /\ UNCHANGED << envVars, cacheVars, calls, normVars, packVars >>

CallGasUsed ==
  /\ sol.pc = "idle"
  /\ \E resp \in PrecompileResponses("gasUsed", 0) : sol' = Frame("gasUsed", resp, gasUsed(resp))
  /\ UNCHANGED << envVars, cacheVars, calls, normVars, packVars >>

CallSha512_256 ==
  /\ sol.pc = "idle"
  /\ \E input \in SolBytes, resp \in PrecompileResponses("sha512_256", 0) :
       sol' = Frame("sha512_256", resp, sha512_256(input, resp))
  /\ UNCHANGED << envVars, cacheVars, calls, normVars, packVars >>

CallSha512 ==
  /\ sol.pc = "idle"
  /\ \E input \in SolBytes, resp \in PrecompileResponses("sha512", 0) :
       sol' = Frame("sha512", resp, sha512(input, resp))
  /\ UNCHANGED << envVars, cacheVars, calls, normVars, packVars >>

CallSha384 ==
  /\ sol.pc = "idle"
  /\ \E input \in SolBytes, resp \in PrecompileResponses("sha384", 0) :
       sol' = Frame("sha384", resp, sha384(input, resp))
  /\ UNCHANGED << envVars, cacheVars, calls, normVars, packVars >>

-----------------------------------------------------------------------------
(* Specifications *)

SigSalts == {0, 1}

Init ==
  /\ latest = 2
  /\ pending = [s \in Signers |-> 0]
  /\ cachedSignatures = EmptyMap
  /\ cachedLeashes = EmptyMap
  /\ leashWriter = EmptyMap
  /\ calls = [c \in Calls |-> IdleCall]
  /\ normIn = None
  /\ normOut = None
  /\ pack = None
  /\ packOrigin = None
  /\ taken = 0
  /\ plain = NoEncodes
  /\ enc = IdleEnc
  /\ sol = IdleSol

AllIdle == \A c \in Calls : calls[c].pc = "idle"

\* what the signers and the provider answer to a call that is in flight, and
\* the caller taking the result
Responses ==
  \/ \E c \in Calls, res \in {"block", "null", "rejected"} :
       LatestResp(c, res)
  \/ \E c \in Calls : MakeLeashReturned(c)
  \/ \E c \in Calls : NonceResp(c)
  \/ \E c \in Calls : NonceFail(c)
  \/ \E c \in Calls, exits \in BOOLEAN : NonceFailUnhandled(c, exits)
  \/ \E c \in Calls, ok \in BOOLEAN : AnchorResp(c, ok)
  \/ \E c \in Calls : AnchorNull(c)
  \/ \E c \in Calls, ok \in BOOLEAN : LeashNetworkResp(c, ok)
  \/ \E c \in Calls, ok \in BOOLEAN : AddressResp(c, ok)
  \/ \E c \in Calls, ok \in BOOLEAN : SignNetworkResp(c, ok)
  \/ \E c \in Calls, ok \in BOOLEAN, salt \in SigSalts : SignResp(c, ok, salt)
  \/ \E c \in Calls : Finish(c)

\* the chain grows and the accounts send transactions
Moves ==
  \/ \E h \in Heights : AdvanceChain(h)
  \/ \E s \in Signers, n \in PendingValues : AdvancePending(s, n)

\* Spec: make calls one after the other, by two signers with or without a
\* provider, under every override of the leash
Next ==
  \/ \E s \in Signers, prov \in BOOLEAN, ov \in LeashOverrides :
       AllIdle /\ Start("c1", s, prov, ov, PlainCall(s))
  \/ \E c \in Calls : AllResolved(c)
  \/ Responses
  \/ Moves

Spec == Init /\ [][Next]_vars

\* SpecChains: make calls one after the other under every override of the
\* chain id, on a chain whose head stands still (leashes go stale by the
\* accounts' transactions); a call with a chainId override, whose leash is
\* stored under a chain no call looks up, starts only while the cache holds
\* fewer than MaxSigs signatures
NextChains ==
  \/ \E s \in Signers, prov \in BOOLEAN, ov \in ChainOverrides :
       /\ AllIdle
       /\ IsSome(ov.chainId) => SigCount(cachedSignatures) < MaxSigs
       /\ Start("c1", s, prov, ov, PlainCall(s))
  \/ Responses
  \/ \E s \in Signers, n \in PendingValues : AdvancePending(s, n)

SpecChains == Init /\ [][NextChains]_vars

\* the data of the calls whose packs are encoded: absent, '0x', [], and the
\* byte 0xab as a Uint8Array and as a hex string
PackData ==
  {None,
   Some([kind |-> "hex", v |-> << >>]),
   Some([kind |-> "array", v |-> << >>]),
   Some([kind |-> "u8", v |-> << 171 >>]),
   Some([kind |-> "hex", v |-> << 10, 11 >>])}

PackCall(s, d) == [PlainCall(s) EXCEPT !.data = d]

\* a call without overrides and a call that clears the cache up front
PackOverrides == {NoOverrides, [NoOverrides EXCEPT !.nonce = Some(5)]}

\* SpecPacks: make calls one after the other for calls with and without a
\* body; the caller keeps the pack of a finished call and encodes it, plainly
\* and encrypted, while later calls run
NextPacks ==
  \/ \E ov \in PackOverrides, d \in PackData :
       AllIdle /\ taken < MaxTakes /\ Start("c1", "A", TRUE, ov, PackCall("A", d))
  \/ Responses
  \/ \E c \in Calls : Take(c)
  \/ Encode
  \/ EncryptEncode
  \/ \E ok \in BOOLEAN, n \in CipherNonces : CipherResp(ok, n)

SpecPacks == Init /\ [][NextPacks]_vars

\* the call the racing callers send: a call with a body
RaceCall(s) == PackCall(s, Some([kind |-> "u8", v |-> << 171 >>]))

\* the application also holds one call and one leash of its own, which it
\* hands to makeSignableCall at some point
InitRace ==
  /\ latest = 2
  /\ pending = [s \in Signers |-> 0]
  /\ cachedSignatures = EmptyMap
  /\ cachedLeashes = EmptyMap
  /\ leashWriter = EmptyMap
  /\ calls = [c \in Calls |-> IdleCall]
  /\ normIn = Some([call |-> RaceCall("A"),
                    leash |-> [nonce |-> 5, block_number |-> 0,
                               block_hash |-> << 0 >>,
                               block_range |-> DEFAULT_BLOCK_RANGE]])
  /\ normOut = None
  /\ pack = None
  /\ packOrigin = None
  /\ taken = 0
  /\ plain = NoEncodes
  /\ enc = IdleEnc
  /\ sol = IdleSol

\* the randomness of the signer in the race: the two calls never get the same
\* bytes for one digest
SaltOf(c) == IF c = "c1" THEN 0 ELSE 1

\* SpecRace: two make calls in flight at once, by two signers, with and
\* without an up-front clear, while signer A's account sends transactions;
\* every query is answered and every signature given; a call starts only
\* while the cache holds fewer than MaxSigs signatures and the application
\* has kept no pack.  The application keeps the pack of one finished call,
\* encodes it, plainly and encrypted, and normalizes a call of its own, while
\* the other make call may still be in flight.
NextRace ==
  \/ \E c \in Calls, s \in Signers, ov \in PackOverrides :
       /\ SigCount(cachedSignatures) < MaxSigs
       /\ IsNone(pack)
       /\ Start(c, s, TRUE, ov, RaceCall(s))
  \/ \E c \in Calls : LatestResp(c, "block")
  \/ \E c \in Calls : MakeLeashReturned(c)
  \/ \E c \in Calls : NonceResp(c)
  \/ \E c \in Calls : AnchorResp(c, TRUE)
  \/ \E c \in Calls : LeashNetworkResp(c, TRUE)
  \/ \E c \in Calls : AddressResp(c, TRUE)
  \/ \E c \in Calls : SignNetworkResp(c, TRUE)
  \/ \E c \in Calls : SignResp(c, TRUE, SaltOf(c))
  \/ \E c \in Calls : Finish(c)
  \/ \E n \in PendingValues : AdvancePending("A", n)
  \/ \E c \in Calls : IsNone(pack) /\ Take(c)
  \/ Encode
  \/ enc.pc = "idle" /\ EncryptEncode
  \/ CipherResp(TRUE, 0)
  \/ IsSome(pack) /\ Normalize

SpecRace == InitRace /\ [][NextRace]_vars

\* an answer, or a failure, to a query or signing request of call c, or the
\* event loop resuming make once makeLeash has returned
Respond(c) ==
  \/ \E res \in {"block", "null", "rejected"} : LatestResp(c, res)
  \/ MakeLeashReturned(c)
  \/ NonceResp(c)
  \/ NonceFail(c)
  \/ \E exits \in BOOLEAN : NonceFailUnhandled(c, exits)
  \/ \E ok \in BOOLEAN : AnchorResp(c, ok)
  \/ AnchorNull(c)
  \/ \E ok \in BOOLEAN : LeashNetworkResp(c, ok)
  \/ \E ok \in BOOLEAN : AddressResp(c, ok)
  \/ \E ok \in BOOLEAN : SignNetworkResp(c, ok)
  \/ \E ok \in BOOLEAN : SignResp(c, ok, 0)

\* SpecLive: signer A's make calls, two in flight at once, with and without
\* an up-front clear, while A's account sends transactions; a call starts
\* only while the cache holds fewer than MaxSigs signatures.  Every query and
\* every signing request of a call in flight is eventually answered, with a
\* result or with a failure: weak fairness of the answers to each call.
NextLive ==
  \/ \E c \in Calls, ov \in PackOverrides :
       /\ SigCount(cachedSignatures) < MaxSigs
       /\ Start(c, "A", TRUE, ov, PlainCall("A"))
  \/ \E c \in Calls : Respond(c)
  \/ \E c \in Calls : Finish(c)
  \/ \E n \in PendingValues : AdvancePending("A", n)

SpecLive ==
  /\ Init
  /\ [][NextLive]_vars
  /\ \A c \in Calls : WF_vars(Respond(c))

\* SpecNorm: makeSignableCall applied once to every call and leash of a
\* bounded set
RECURSIVE SeqsUpTo(_, _)
SeqsUpTo(S, n) ==
  IF n = 0 THEN {<< >>}
  ELSE LET shorter == SeqsUpTo(S, n - 1)
       IN shorter \cup {Append(q, x) : q \in shorter, x \in S}

NormBytes == SeqsUpTo({0, 171, 255}, MaxDataLen)
NormArrays == SeqsUpTo({0, 171, 300}, MaxDataLen)
NormHexes == {Hexlify(b) : b \in SeqsUpTo({0, 10, 171, 255}, MaxDataLen)}

NormData ==
  {None, Some([kind |-> "empty", v |-> << >>])}
    \cup {Some([kind |-> "u8", v |-> b]) : b \in NormBytes}
    \cup {Some([kind |-> "array", v |-> a]) : a \in NormArrays}
    \cup {Some([kind |-> "hex", v |-> h]) : h \in NormHexes}

NormCalls ==
  [from : {"0xAA"},
   to : {None, Some("0xCC")},
   gas : {None, Some(0), Some(21000)},
   gasLimit : {None, Some(0), Some(50000)},
   gasPrice : {None, Some(0), Some(7)},
   value : {None, Some(0), Some(9)},
   data : NormData]

NormLeashes ==
  [nonce : {5, 20}, block_number : {0, 100}, block_hash : {<< 0 >>, << 157 >>},
   block_range : {10, DEFAULT_BLOCK_RANGE}]

InitNorm ==
  /\ latest = 2
  /\ pending = [s \in Signers |-> 0]
  /\ cachedSignatures = EmptyMap
  /\ cachedLeashes = EmptyMap
  /\ leashWriter = EmptyMap
  /\ calls = [c \in Calls |-> IdleCall]
  /\ normIn \in {Some([call |-> c, leash |-> l]) : c \in NormCalls, l \in NormLeashes}
  /\ normOut = None
  /\ pack = None
  /\ packOrigin = None
  /\ taken = 0
  /\ plain = NoEncodes
  /\ enc = IdleEnc
  /\ sol = IdleSol

NextNorm == Normalize

SpecNorm == InitNorm /\ [][NextNorm]_vars

\* SpecSol: one call into the Sapphire library and what its precompile
\* answers
NextSol ==
  \/ CallRandomBytes
  \/ CallGenerateCurve25519KeyPair
  \/ CallDeriveSymmetricKey
  \/ CallEncrypt
  \/ CallDecrypt
  \/ CallGenerateSigningKeyPair
  \/ CallSign
  \/ CallVerify
  \/ CallPadGas
  \/ CallGasUsed
  \/ CallSha512_256
  \/ CallSha512
  \/ CallSha384

SpecSol == Init /\ [][NextSol]_vars

-----------------------------------------------------------------------------
(* Properties *)

\* the frame of call c holds the leash makeLeash returned
HasLeash(r) == r.pc \in {"leashed", "address", "chainid", "signing", "done"}

\* the latest block number a call without block override observed
ObservedLatest(r) == Val(r.anchor) + 2

\* C1: a build without overrides that finds the leash L an earlier build
\* without overrides returned and the signing step cached, observes a pending
\* nonce below L.nonce and a latest block not past
\* L.block_number + L.block_range - 2 (so that the block it resolves, two
\* below, is further inside the window), returns L.
C1_LeashReuse ==
  \A c \in Calls :
    LET r == calls[c]
        L == Val(r.cachedLeash)
    IN (/\ HasLeash(r)
        /\ r.ov = NoOverrides
        /\ IsSome(r.cachedLeash)
        /\ Val(r.cachedBy).kind = "plain"
        /\ Val(r.nonce) < L.nonce
        /\ ObservedLatest(r) <= L.block_number + L.block_range - 2)
       => r.leash = r.cachedLeash

\* C2: a make call that starts with a nonce override or a block override, of
\* any value, leaves both cache maps empty when its first job ends, that is
\* before any of its queries is answered.
C2_OverrideClears ==
  [][\A c \in Calls :
       (/\ calls[c].pc = "idle"
        /\ calls'[c].pc # "idle"
        /\ IsSome(calls'[c].ov.nonce) \/ IsSome(calls'[c].ov.block))
       => /\ DOMAIN cachedSignatures' = {}
          /\ DOMAIN cachedLeashes' = {}]_vars

\* a call with a nonce override of 0 is waiting for the latest block; its
\* clear removed a cached leash and the cache is empty
C2_Witness ==
  \E c \in Calls :
    /\ calls[c].pc = "latest"
    /\ calls[c].ov.nonce = Some(0)
    /\ IsNone(calls[c].ov.block)
    /\ calls[c].evicted = 1
    /\ DOMAIN cachedSignatures = {}
    /\ DOMAIN cachedLeashes = {}

\* C3: a call without nonce or block override that finds a cached
\* leash C returns it if and only if C.nonce > nonce and
\* C.block_number + C.block_range > block.number + 2, with C's own range.
C3_ReuseIffOwnRange ==
  \A c \in Calls :
    LET r == calls[c]
        C == Val(r.cachedLeash)
    IN (/\ HasLeash(r)
        /\ IsNone(r.ov.nonce)
        /\ IsNone(r.ov.block)
        /\ IsSome(r.cachedLeash))
       => ((r.path = "reused" /\ r.leash = r.cachedLeash)
             <=> (/\ C.nonce > Val(r.nonce)
                  /\ C.block_number + C.block_range > Val(r.block).number + 2))

\* C5: a call without nonce or block override that finds no cached leash of
\* its chain, or one that is not reusable (C3), returns nonce = observed
\* pending nonce + 20, the number and hash of the block two below the latest
\* block it observed, and block_range = the override, else 4000.
C5_FreshLeash ==
  \A c \in Calls :
    LET r == calls[c]
        C == Val(r.cachedLeash)
    IN (/\ HasLeash(r)
        /\ IsNone(r.ov.nonce)
        /\ IsNone(r.ov.block)
        /\ \/ IsNone(r.cachedLeash)
           \/ C.nonce <= Val(r.nonce)
           \/ C.block_number + C.block_range <= Val(r.block).number + 2)
       => Val(r.leash) =
            [nonce |-> Val(r.nonce) + 20,
             block_number |-> ObservedLatest(r) - 2,
             block_hash |-> GetBytes(BlockAt(ObservedLatest(r) - 2).hash),
             block_range |-> IF IsSome(r.ov.blockRange)
                             THEN Val(r.ov.blockRange) ELSE 4000]

\* C6: with a nonce override n, a block override b and a
\* blockRange override r the leash is {n, b.number, b.hash, r}.
C6_OverriddenLeash ==
  \A c \in Calls :
    LET r == calls[c]
    IN (/\ HasLeash(r)
        /\ IsSome(r.ov.nonce)
        /\ IsSome(r.ov.block)
        /\ IsSome(r.ov.blockRange))
       => Val(r.leash) =
            [nonce |-> Val(r.ov.nonce),
             block_number |-> Val(r.ov.block).number,
             block_hash |-> GetBytes(Val(r.ov.block).hash),
             block_range |-> Val(r.ov.blockRange)]

\* C9: a call that reaches the signing step has asked the signer exactly once
\* when it waits for the signature and when it returns, hit or no hit, and
\* the signature it returns is the signer's, over the hash of its call.
C9_AlwaysResign ==
  \A c \in Calls :
    LET r == calls[c]
    IN /\ r.pc = "signing" => r.nsign = 1 /\ IsNone(r.signature)
       /\ r.pc = "done" =>
            /\ r.nsign = 1
            /\ IsSome(r.signature)
            /\ Val(r.signature).signer = Address(r.signer)
            /\ Val(r.signature).hash = CallHash(Val(r.chainId), Signable(r))
       /\ r.nsign <= 1

\* a call has returned a signature other than the one the cache held for
\* its address and hash
C9_Witness ==
  \E c \in Calls :
    /\ calls[c].pc = "done"
    /\ calls[c].nsign = 1
    /\ IsSome(calls[c].hit)
    /\ calls[c].hit # calls[c].signature

C10_CacheFill ==
  [][\A c \in Calls :
       LET r == calls[c]
           a == Address(r.signer)
           chain == Val(r.chainId)
           h == CallHash(chain, Signable(r))
       IN (r.pc = "signing" /\ calls'[c].pc = "done")
          => /\ DOMAIN cachedSignatures' = DOMAIN cachedSignatures \cup {a}
             /\ DOMAIN cachedSignatures'[a] =
                  (IF a \in DOMAIN cachedSignatures
                   THEN DOMAIN cachedSignatures[a] ELSE {}) \cup {h}
             /\ Some(cachedSignatures'[a][h]) = calls'[c].signature
             /\ \A a2 \in DOMAIN cachedSignatures \ {a} :
                  cachedSignatures'[a2] = cachedSignatures[a2]
             /\ a \in DOMAIN cachedSignatures =>
                  \A h2 \in DOMAIN cachedSignatures[a] \ {h} :
                    cachedSignatures'[a][h2] = cachedSignatures[a][h2]
             /\ DOMAIN cachedLeashes' = DOMAIN cachedLeashes \cup {chain}
             /\ Some(cachedLeashes'[chain]) = r.leash
             /\ \A ch2 \in DOMAIN cachedLeashes \ {chain} :
                  cachedLeashes'[ch2] = cachedLeashes[ch2]]_vars

\* signer B's call on chain 1 has returned; the cache holds its signature
\* and leash beside signer A's signature and the leash of chain 2, which
\* differs from B's
C10_Witness ==
  \E c \in Calls :
    /\ calls[c].pc = "done"
    /\ calls[c].signer = "B"
    /\ calls[c].chainId = Some(1)
    /\ DOMAIN cachedSignatures = {"0xAA", "0xBB"}
    /\ DOMAIN cachedLeashes = {1, 2}
    /\ Some(cachedLeashes[1]) = calls[c].leash
    /\ cachedLeashes[2] # cachedLeashes[1]

\* C7: makeSignableCall returns no SignableEthCall for a call that
\* carries both gas and gasLimit.
C7_RejectsBothGasFields ==
  (/\ IsSome(normIn)
   /\ IsSome(Val(normIn).call.gas)
   /\ IsSome(Val(normIn).call.gasLimit))
  => IsNone(normOut)

\* C8: for a call with at most one of gas and gasLimit the result has
\* gasLimit = the field supplied, else 30,000,000; to = the zero address,
\* data = '0x', value = 0, gasPrice = 1 where the field is absent; the leash
\* fields of the leash given; and the cache is as it was.
C8_NormalizerDefaults ==
  (/\ IsSome(normOut)
   /\ IsNone(Val(normIn).call.gas) \/ IsNone(Val(normIn).call.gasLimit))
  => LET call == Val(normIn).call
         leash == Val(normIn).leash
         out == Val(normOut)
     IN /\ IsSome(call.gas) => out.gasLimit = Val(call.gas)
        /\ IsSome(call.gasLimit) => out.gasLimit = Val(call.gasLimit)
        /\ IsNone(call.gas) /\ IsNone(call.gasLimit)
             => out.gasLimit = 30000000
        /\ out.from = call.from
        /\ IsNone(call.to) => out.to = "0x0000000000000000000000000000000000000000"
        /\ IsSome(call.to) => out.to = Val(call.to)
        /\ IsNone(call.data) => out.data = << >>
        /\ IsNone(call.value) => out.value = 0
        /\ IsSome(call.value) => out.value = Val(call.value)
        /\ IsNone(call.gasPrice) => out.gasPrice = 1
        /\ IsSome(call.gasPrice) => out.gasPrice = Val(call.gasPrice)
        /\ out.leash = [nonce |-> leash.nonce,
                        blockNumber |-> leash.block_number,
                        blockHash |-> leash.block_hash,
                        blockRange |-> leash.block_range]
        /\ DOMAIN cachedSignatures = {}
        /\ DOMAIN cachedLeashes = {}

\* a call with a gas of 0 and nothing else has been normalized: gasLimit 0
\* and every default
C8_Witness ==
  /\ IsSome(normOut)
  /\ Val(normIn).call.gas = Some(0)
  /\ IsNone(Val(normIn).call.gasLimit)
  /\ IsNone(Val(normIn).call.to)
  /\ IsNone(Val(normIn).call.data)
  /\ IsNone(Val(normIn).call.value)
  /\ IsNone(Val(normIn).call.gasPrice)
  /\ Val(normOut).gasLimit = 0
  /\ Val(normOut).gasPrice = 1
  /\ Val(normOut).data = << >>

\* the positions of a call inside signCall
InSignCall == {"address", "chainid", "signing"}

\* C11: a call whose signing request is refused rejects with that failure
\* after one request to the signer; a call that rejected never goes on (it
\* stays rejected until its frame is freed or the process ends); and
\* no step of a call inside signCall other than the arrival of its signature
\* changes either cache map.
C11_SigningErrors ==
  [][\A c \in Calls :
       /\ (calls[c].pc = "signing" /\ calls'[c].pc = "failed")
            => /\ calls'[c].err = "signTypedData failed"
               /\ calls'[c].nsign = 1
               /\ IsNone(calls'[c].signature)
       /\ calls[c].pc = "failed" =>
            calls'[c].pc \in {"failed", "idle", "exited"}
       /\ (/\ calls[c].pc \in InSignCall
           /\ calls'[c] # calls[c]
           /\ calls'[c].pc # "done")
            => /\ cachedSignatures' = cachedSignatures
               /\ cachedLeashes' = cachedLeashes]_vars

\* signer B's signing request was refused; the cache still holds signer A's
\* signature and leash and nothing of B's
C11_Witness ==
  \E c \in Calls :
    /\ calls[c].pc = "failed"
    /\ calls[c].err = "signTypedData failed"
    /\ calls[c].signer = "B"
    /\ calls[c].nsign = 1
    /\ DOMAIN cachedSignatures = {"0xAA"}
    /\ DOMAIN cachedLeashes = {ProviderChain}

\* C12: a call with a chainId override, of any value, never asks the provider
\* for the network in signCall and signs and caches under the override; a
\* call without one signs under the provider's chain id; a call with neither
\* override nor provider requests no signature.
C12_ChainIdResolution ==
  \A c \in Calls :
    LET r == calls[c]
    IN /\ IsSome(r.ov.chainId) =>
            /\ r.pc # "chainid"
            /\ r.asked["chain"] = 0
            /\ r.pc \in {"signing", "done"} => r.chainId = r.ov.chainId
       /\ (IsNone(r.ov.chainId) /\ r.pc \in {"signing", "done"}) =>
            r.provider /\ r.chainId = Some(ProviderChain)
       /\ (IsNone(r.ov.chainId) /\ ~r.provider) => r.nsign = 0

\* the call specified a body that is not empty
NonEmptyBody(data) ==
  /\ IsSome(data)
  /\ Val(data).kind # "empty"
  /\ Len(parseBytesLike(Val(data))) > 0

\* the encoded record carries leash and signature, and a data field exactly
\* if the call the pack was made for had a non-empty body
WellFormed(out, origin) ==
  /\ Len(out) = 3
  /\ out[1][1] = "data" /\ out[2][1] = "leash" /\ out[3][1] = "signature"
  /\ IsSome(out[2][2])
  /\ IsSome(out[3][2])
  /\ IsSome(out[1][2]) <=> NonEmptyBody(origin)

\* C13: every record encode() returned for a pack a caller held, and the
\* record a finished encryptEncode() returned, carries leash and signature,
\* and carries data if and only if the originating call had a non-empty
\* body.
C13_EnvelopePresence ==
  /\ \A e \in plain.outs : WellFormed(e.out, e.origin)
  /\ enc.pc = "done" => WellFormed(Val(enc.out), enc.origin)

\* C14: an encryptEncode() on a pack without data has returned what encode()
\* returns for the pack, and has returned for it, without asking the cipher;
\* on a pack with data it asks the cipher once, for an envelope of the pack's
\* data, and returns the record with that envelope under data and the leash
\* and signature of the plain form of that pack, also when the caller has
\* taken the pack of a later call in the meantime.
C14_EncryptedEncoding ==
  LET p == Val(enc.pack)
  IN /\ (enc.pc = "done" /\ IsNone(p.data)) =>
          /\ enc.ncipher = 0
          /\ enc.out = Some(encode(p))
          /\ \A e \in plain.outs : e.pack = enc.pack => e.out = Val(enc.out)
     /\ enc.pc \in {"cipher", "failed"} =>
          /\ IsSome(p.data)
          /\ enc.ncipher = 1
          /\ enc.arg = p.data
          /\ IsNone(enc.out)
     /\ (enc.pc = "done" /\ IsSome(p.data)) =>
          /\ enc.ncipher = 1
          /\ enc.arg = p.data
          /\ \E n \in CipherNonces :
               Val(enc.out)[1] = << "data", Some(Envelope(Val(p.data), n)) >>
          /\ Val(enc.out)[2] = encode(p)[2]
          /\ Val(enc.out)[3] = encode(p)[3]
          /\ Len(Val(enc.out)) = 3

\* C14 witness: an encryptEncode() on a pack with data has asked the cipher
\* once and returned the envelope with the leash and signature encode()
\* gave for that pack, while the caller holds the pack of a later call
C14_Witness ==
  /\ enc.pc = "done"
  /\ enc.ncipher = 1
  /\ IsSome(Val(enc.pack).data)
  /\ taken = MaxTakes
  /\ pack # enc.pack
  /\ Val(pack).leash # Val(enc.pack).leash
  /\ \E e \in plain.outs :
       /\ e.pack = enc.pack
       /\ Val(enc.out)[2] = e.out[2]
       /\ Val(enc.out)[3] = e.out[3]
       /\ Val(enc.out)[1] # e.out[1]

\* C15: every encode() on one pack returns the same record, whatever make
\* calls, cache clears and takings of later packs run in between; an encode()
\* or a step of an encryptEncode() changes neither the pack the caller holds
\* nor a cache map, and an encryptEncode() keeps the pack it was called on;
\* and the pack a caller holds is replaced only by the pack of a call that
\* finished.
C15_EncodeIdempotent ==
  [][/\ \A e1, e2 \in plain'.outs : e1.pack = e2.pack => e1.out = e2.out
     /\ plain' # plain =>
          /\ plain'.n = plain.n + 1
          /\ plain.outs \subseteq plain'.outs
          /\ \E e \in plain'.outs : e.pack = pack /\ e.out = encode(Val(pack))
          /\ pack' = pack
          /\ cachedSignatures' = cachedSignatures
          /\ cachedLeashes' = cachedLeashes
     /\ enc' # enc =>
          /\ pack' = pack
          /\ enc'.pack \in {pack, enc.pack}
          /\ cachedSignatures' = cachedSignatures
          /\ cachedLeashes' = cachedLeashes
     /\ pack' # pack =>
          \E c \in Calls : calls[c].pc = "done" /\ pack' = Some(Pack(calls[c]))
    ]_vars

\* a pack with data has been encoded MaxEncodes times, and encrypted, with a
\* clear of the cache since it was made
C15_Witness ==
  /\ IsSome(pack)
  /\ IsSome(Val(pack).data)
  /\ plain.n = MaxEncodes
  /\ plain.outs = {[pack |-> pack, origin |-> packOrigin,
                    out |-> encode(Val(pack))]}
  /\ enc.pc = "done"
  /\ enc.pack = pack
  /\ DOMAIN cachedSignatures = {}
  /\ DOMAIN cachedLeashes = {}

\* C16: a call without block override by a signer without provider has
\* failed with the configuration error when make's first job ends, whatever
\* nonce and blockRange overrides it has; it has no leash, has asked for no
\* block and requests no signature, as long as the process lives and after.
C16_MissingProvider ==
  \A c \in Calls :
    LET r == calls[c]
    IN (r.pc # "idle" /\ IsNone(r.ov.block) /\ ~r.provider)
       => /\ r.pc \in {"failed", "exited"}
          /\ r.err = ErrNoProvider
          /\ IsNone(r.leash)
          /\ r.asked["latest"] = 0
          /\ r.asked["anchor"] = 0
          /\ r.nsign = 0

\* a call with nonce override 5 and blockRange override 5000 by a signer
\* without provider has failed with the configuration error
C16_Witness ==
  \E c \in Calls :
    /\ calls[c].pc = "failed"
    /\ calls[c].err = ErrNoProvider
    /\ ~calls[c].provider
    /\ calls[c].ov.nonce = Some(5)
    /\ IsNone(calls[c].ov.block)
    /\ calls[c].ov.blockRange = Some(5000)
    /\ calls[c].nsign = 0

\* the errors a call ends with when its anchor block cannot be fetched
AnchorErrors == {ErrNoLatest, "getBlock failed", ErrNullBlock}

\* C17: a call without block override whose latest block is absent or
\* cannot be fetched, whose query for the block at latest - 2 fails, or
\* whose query resolves to no block, fails: it never holds a leash, asked
\* for the block once, and
\* requests no signature; a call that holds a leash holds the block the
\* provider supplied for latest - 2.  (A call ends otherwise only when the
\* process ends.)
C17_UnfetchableAnchor ==
  [][\A c \in Calls :
       LET r == calls[c]
           r2 == calls'[c]
       IN /\ (HasLeash(r2) /\ IsNone(r2.ov.block)) =>
               /\ r2.block = Some(BlockAt(Val(r2.anchor)))
               /\ r2.asked["latest"] = 1
               /\ r2.asked["anchor"] = 1
          /\ (r2.pc = "failed" /\ r2.err \in AnchorErrors) =>
               /\ IsNone(r2.leash)
               /\ r2.nsign = 0
               /\ r2.asked["latest"] = 1
               /\ r2.asked["anchor"] <= 1
               /\ r2.asked["address"] = 0
          /\ r.pc = "failed" => r2.pc \in {"failed", "idle", "exited"}
          /\ (r.pc = "latest" /\ r2.pc # "latest") =>
               \/ r2.pc = "all" /\ r2.anchor = Some(latest - 2)
               \/ r2.pc = "failed" /\ r2.err \in {ErrNoLatest, "getBlock failed"}
               \/ /\ r.loose = "rejected"
                  /\ r2.pc = "failed"
                  /\ r2.err = "getTransactionCount failed"
               \/ r2.pc = "exited"
          /\ (r2.pc = "all" /\ IsNone(r2.block)) => r2.loose = ""
          /\ r2.block = Some(NullBlock) => r2.pc \in {"all", "network", "exited"}
          /\ (r.block = Some(NullBlock) /\ r.pc = "network" /\ r2 # r) =>
               r2.pc \in {"failed", "exited"}]_vars

\* the provider had no block at latest - 2: the call cleared the cache of a
\* stale leash and then failed reading the block
C17_Witness ==
  \E c \in Calls :
    /\ calls[c].pc = "failed"
    /\ calls[c].err = ErrNullBlock
    /\ calls[c].ov = NoOverrides
    /\ calls[c].evicted = 1
    /\ calls[c].asked["network"] = 1
    /\ calls[c].asked["anchor"] = 1
    /\ calls[c].nsign = 0

\* the failures of the queries a call awaits at each position
QueryErrors ==
  [latest |-> {"getBlock failed"},
   all |-> {"getTransactionCount failed", "getBlock failed"},
   network |-> {"getNetwork failed"},
   address |-> {"getAddress failed"},
   chainid |-> {"getNetwork failed"}]

\* the errors makeLeash and signCall throw themselves at each position
ThrownErrors ==
  [latest |-> {ErrNoLatest},
   all |-> {ErrNoProvider, ErrNullBlock},
   network |-> {ErrNullBlock},
   address |-> {ErrNoChainId},
   chainid |-> {}]

\* C18: no query is sent twice within one call; a call that rejects while it
\* awaits a query rejects with a failure of a query it awaits there (or an
\* error makeLeash or signCall throws there), sends no query in that step
\* and has requested no signature; the step adds no entry to either cache
\* map; a call that rejected does nothing more (a query of its that is
\* still outstanding may settle); a call whose pending-nonce query failed
\* rejects with that failure, at the latest when Promise.all takes the
\* query's promise; and the failure of a query ends no call other than by
\* make rejecting.
C18_NoRetry ==
  [][\A c \in Calls :
       LET r == calls[c]
           r2 == calls'[c]
       IN /\ \A q \in Queries : r2.asked[q] <= 1
          /\ (r.pc \in DOMAIN QueryErrors /\ r2.pc = "failed") =>
               /\ \/ /\ r2.err \in QueryErrors[r.pc] \cup ThrownErrors[r.pc]
                     /\ r2.asked = r.asked
                  \/ /\ r.pc = "latest" /\ r.loose = "rejected"
                     /\ r2.err = "getTransactionCount failed"
                     /\ r2.asked = [r.asked EXCEPT !["anchor"] = 1]
               /\ r2.nsign = 0
               /\ IsNone(r2.signature)
               /\ \A a \in DOMAIN cachedSignatures' :
                    /\ a \in DOMAIN cachedSignatures
                    /\ cachedSignatures'[a] = cachedSignatures[a]
               /\ \A ch \in DOMAIN cachedLeashes' :
                    /\ ch \in DOMAIN cachedLeashes
                    /\ cachedLeashes'[ch] = cachedLeashes[ch]
          /\ r.pc = "failed" =>
               \/ r2 = r
               \/ r2 = [r EXCEPT !.loose = ""]
               \/ r2.pc = "idle"
          /\ (r.loose = "rejected" /\ r2.pc = "failed") =>
               r2.err = "getTransactionCount failed"
          /\ r2.pc # "exited"]_vars

\* a leash all of whose fields are resolved values
ResolvedLeash(l) ==
  /\ l.nonce \in Nat
  /\ l.block_number \in Nat
  /\ Len(l.block_hash) > 0
  /\ l.block_range \in Nat

\* C19: while a call awaits the latest block or Promise.all, its pending-nonce
\* query is already sent (unless a truthy nonce override replaces it), and
\* while it awaits Promise.all without a block override its anchor query is
\* sent; it awaits Promise.all with both values at hand only when both were
\* overrides; a call that asked for the network to consult the cache, or that
\* holds a leash, has both its nonce and its block resolved, and the leash it
\* holds has every field resolved.
C19_LeashOrdering ==
  \A c \in Calls :
    LET r == calls[c]
    IN /\ (r.pc \in {"latest", "all"} /\ ~Truthy(r.ov.nonce)) =>
            r.asked["nonce"] = 1
       /\ r.pc = "latest" =>
            /\ r.asked["latest"] = 1
            /\ IsNone(r.block)
       /\ (r.pc = "all" /\ IsNone(r.ov.block)) => r.asked["anchor"] = 1
       /\ (r.pc = "all" /\ IsSome(r.nonce) /\ IsSome(r.block)) =>
            (Truthy(r.ov.nonce) /\ IsSome(r.ov.block))
       /\ (r.pc = "network" \/ HasLeash(r)) =>
            /\ IsSome(r.nonce)
            /\ IsSome(r.block)
       /\ r.pc \in {"idle", "latest", "all", "network"} =>
            /\ IsNone(r.leash)
            /\ IsNone(r.cachedLeash)
       /\ HasLeash(r) =>
            /\ IsSome(r.leash)
            /\ Val(r.block) # NullBlock
            /\ ResolvedLeash(Val(r.leash))

\* a call awaits Promise.all with both queries sent, its anchor block
\* already resolved and its pending nonce not yet
C19_Witness ==
  \E c \in Calls :
    /\ calls[c].pc = "all"
    /\ calls[c].asked["nonce"] = 1
    /\ calls[c].asked["anchor"] = 1
    /\ IsSome(calls[c].block)
    /\ IsNone(calls[c].nonce)

\* the (address, hash) pairs under which a signature map holds a signature
SigKeys(sigs) ==
  UNION {{<< a, h >> : h \in DOMAIN sigs[a]} : a \in DOMAIN sigs}

\* map m2 is map m with key k set and every other entry as it was
SetsOne(m, m2, k) ==
  /\ DOMAIN m2 = DOMAIN m \cup {k}
  /\ \A j \in DOMAIN m : j # k => m2[j] = m[j]

\* signature map s2 is s with the signature of (a, h) set and every other
\* entry as it was
SetsOneSignature(s, s2, a, h) ==
  /\ SigKeys(s2) = SigKeys(s) \cup {<< a, h >>}
  /\ DOMAIN s2 = DOMAIN s \cup {a}
  /\ \A k \in SigKeys(s) : k # << a, h >> => s2[k[1]][k[2]] = s[k[1]][k[2]]

\* C20: with make calls interleaved in every way, every step leaves both
\* cache maps as they were, or empties both, or is the end of a signCall
\* that sets the signature of one (address, hash) and the leash of one chain
\* and leaves every other entry of both maps as it was; and a step that is
\* not a step of a make call (makeSignableCall, encode, encryptEncode among
\* them) leaves both maps as they were.
C20_CacheDiscipline ==
  [][/\ \/ UNCHANGED << sol, cachedSignatures, cachedLeashes >>
        \/ /\ cachedSignatures' = EmptyMap
           /\ cachedLeashes' = EmptyMap
        \/ \E c \in Calls :
             /\ calls[c].pc = "signing"
             /\ calls'[c].pc = "done"
             /\ SetsOne(cachedLeashes, cachedLeashes', Val(calls'[c].chainId))
             /\ \E k \in SigKeys(cachedSignatures') :
                  /\ k[1] = Address(calls[c].signer)
                  /\ cachedSignatures'[k[1]][k[2]] = Val(calls'[c].signature)
                  /\ SetsOneSignature(cachedSignatures, cachedSignatures',
                                      k[1], k[2])
     /\ calls' = calls => UNCHANGED << cachedSignatures, cachedLeashes >>
    ]_vars

\* while one call was in flight and had emptied a filled cache, the other
\* call's signCall ended and added its entries, which are all the cache
\* holds; the application has kept that call's pack, encoded it twice and
\* encrypted, and normalized a call of its own
C20_Witness ==
  \E d \in Calls :
    /\ calls[d].pc \in {"address", "chainid", "signing"}
    /\ calls[d].evicted > 0
    /\ IsSome(pack)
    /\ SigKeys(cachedSignatures) # {}
    /\ \A k \in SigKeys(cachedSignatures) :
         cachedSignatures[k[1]][k[2]] = Val(pack).signature
    /\ DOMAIN cachedLeashes = {ProviderChain}
    /\ cachedLeashes[ProviderChain] = Val(pack).leash
    /\ plain.n = MaxEncodes
    /\ enc.pc = "done"
    /\ IsSome(normOut)

\* the signature a finished call returns is the signer's signature of the
\* hash of that call's own signable call
OwnSignature(r) ==
  /\ IsSome(r.signature)
  /\ Val(r.signature).signer = Address(r.signer)
  /\ Val(r.signature).hash = CallHash(Val(r.chainId), Signable(r))

\* C21: with two make calls in flight at once, the step in which a call's
\* signature arrives leaves the chain's cached leash equal to that call's
\* leash and the signature cached under that call's (address, hash) equal to
\* that call's signature, whatever the other call had stored there before;
\* the step leaves the other call's frame as it was, no call ever fails, and
\* a finished call holds the signature of its own call and leash.
C21_LastWriterWins ==
  [][\A c \in Calls :
       LET r == calls[c]
           r2 == calls'[c]
       IN /\ r2.pc # "failed"
          /\ r2.pc = "done" => OwnSignature(r2)
          /\ (r.pc = "signing" /\ r2.pc # "signing") =>
               /\ r2.pc = "done"
               /\ r2.leash = r.leash
               /\ CacheGetLeash(cachedLeashes', Val(r.chainId)) = r.leash
               /\ CacheGet(cachedSignatures', Address(r.signer),
                           CallHash(Val(r.chainId), Signable(r)))
                    = r2.signature
               /\ \A d \in Calls \ {c} : calls'[d] = calls[d]
    ]_vars

\* two calls without overrides both found the leash cache empty, built
\* different leashes and both got their signature; the cache holds the leash
\* of one of them
C21_Witness ==
  \E c, d \in Calls :
    /\ c # d
    /\ calls[c].pc = "done" /\ calls[d].pc = "done"
    /\ calls[c].ov = NoOverrides /\ calls[d].ov = NoOverrides
    /\ calls[c].path = "fresh" /\ calls[d].path = "fresh"
    /\ calls[c].leash # calls[d].leash
    /\ CacheGetLeash(cachedLeashes, ProviderChain) = calls[c].leash

\* hash k was computed on chain `chain` over a call whose normalized form
\* and leash are those of signable call `call`
SameSigned(k, chain, call) ==
  /\ k.chainId = Some(chain)
  /\ k.from = call.from
  /\ k.to = call.to
  /\ k.gasLimit = call.gasLimit
  /\ k.gasPrice = call.gasPrice
  /\ k.value = call.value
  /\ Hexlify(k.data) = call.data
  /\ k.leash = call.leash

\* C22: when a call's signature arrives, every hash already cached for its
\* signer that was computed on the same chain over the same normalized call
\* and leash is the hash of this call; if there is one, the write replaces
\* the signature stored under it by this call's signature and the signer
\* has as many cached signatures as before.
C22_KeyDeterminism ==
  [][\A c \in Calls :
       LET r == calls[c]
           a == Address(r.signer)
           h == CallHash(Val(r.chainId), Signable(r))
           old == IF MapHas(cachedSignatures, a)
                  THEN DOMAIN cachedSignatures[a] ELSE {}
           same == {k \in old : SameSigned(k, Val(r.chainId), Signable(r))}
       IN (r.pc = "signing" /\ calls'[c].pc = "done") =>
            /\ same \subseteq {h}
            /\ h \in old => h \in same
            /\ cachedSignatures'[a][h] = Val(calls'[c].signature)
            /\ same # {} => DOMAIN cachedSignatures'[a] = old
    ]_vars

\* a call whose data was given as a hex string has been signed after a call
\* of the same signer with the same normalized call and leash; its signature
\* replaced the other one, and the signer has one cached signature
C22_Witness ==
  \E c \in Calls :
    LET r == calls[c]
        a == Address(r.signer)
    IN /\ r.pc = "done"
       /\ IsSome(r.call.data)
       /\ Val(r.call.data).kind = "hex"
       /\ IsSome(r.hit)
       /\ Val(r.hit) # Val(r.signature)
       /\ MapHas(cachedSignatures, a)
       /\ Cardinality(DOMAIN cachedSignatures[a]) = 1
       /\ cachedSignatures[a][Val(r.signature).hash] = Val(r.signature)

\* C23: a leash returned to a call without nonce or block override has a
\* nonce above the pending nonce the call observed, and the latest block the
\* call observed lies in [block_number, block_number + block_range).
C23_ValidAtIssue ==
  \A c \in Calls :
    LET r == calls[c]
        L == Val(r.leash)
    IN (HasLeash(r) /\ ConsultsCache(r.ov)) =>
         /\ Val(r.nonce) < L.nonce
         /\ L.block_number <= ObservedLatest(r)
         /\ ObservedLatest(r) < L.block_number + L.block_range

\* the leash of a SignableEthCall, as makeSignableCall writes leash l
SignedLeash(l) ==
  [nonce |-> l.nonce, blockNumber |-> l.block_number,
   blockHash |-> l.block_hash, blockRange |-> l.block_range]

\* C24: with make calls in flight at once and the cache cleared in between,
\* a call that has not yet been returned a leash has requested no signature;
\* the signature of a finished call, and of the pack the caller keeps, was
\* made over the hash of a signable call holding the very leash the pack
\* holds.
C24_SignatureBindsLeash ==
  /\ \A c \in Calls :
       LET r == calls[c]
       IN /\ r.pc \in {"idle", "latest", "all", "network"} =>
               /\ r.nsign = 0
               /\ IsNone(r.signature)
          /\ r.pc \in {"signing", "done"} => r.nsign = 1
          /\ r.pc = "done" =>
               /\ Pack(r).leash = Val(r.leash)
               /\ Pack(r).signature = Val(r.signature)
               /\ Val(r.signature).hash.leash = SignedLeash(Val(r.leash))
  /\ IsSome(pack) =>
       Val(pack).signature.hash.leash = SignedLeash(Val(pack).leash)

\* a call took leash L from the cache; the other call, in flight, then found
\* L outdated and cleared the cache; the first call's signature arrived after
\* that, over L, and the caller keeps its pack
C24_Witness ==
  \E d \in Calls :
    /\ calls[d].pc \in {"address", "chainid", "signing"}
    /\ calls[d].path = "rebuilt"
    /\ calls[d].evicted > 0
    /\ IsSome(pack)
    /\ calls[d].cachedLeash = Some(Val(pack).leash)
    /\ CacheGetLeash(cachedLeashes, ProviderChain) = Some(Val(pack).leash)

\* C25: every leash in the leash map was stored by a call whose leash took
\* its nonce from the pending nonce and its block from the chain, and a call
\* without overrides that returns a cached leash returns such a leash.
C25_LiveLeashesOnly ==
  /\ \A ch \in DOMAIN cachedLeashes : leashWriter[ch].live
  /\ \A c \in Calls :
       LET r == calls[c]
       IN (HasLeash(r) /\ r.ov = NoOverrides /\ r.path = "reused") =>
            Val(r.cachedBy).live

\* C26: while a call that found cached leash L outdated and cleared the cache
\* is still in flight, the leash map does not hold L again; stated for an L
\* that calls without overrides stored, before the clear and after it.
C26_NoResurrection ==
  \A d \in Calls :
    LET r == calls[d]
    IN (/\ HasLeash(r)
        /\ r.path = "rebuilt"
        /\ Val(r.cachedBy).kind = "plain"
        /\ MapHas(cachedLeashes, ProviderChain)
        /\ leashWriter[ProviderChain].kind = "plain") =>
         cachedLeashes[ProviderChain] # Val(r.cachedLeash)

\* C27: a leash returned to a call without nonce override has a nonce of at
\* most the pending nonce that call observed plus DEFAULT_NONCE_RANGE; stated
\* for leashes built by the call itself or cached by a call without
\* overrides, of whatever signer.
C27_NonceHeadroom ==
  \A c \in Calls :
    LET r == calls[c]
    IN (/\ HasLeash(r)
        /\ IsNone(r.ov.nonce)
        /\ r.path = "reused" => Val(r.cachedBy).kind = "plain") =>
         Val(r.leash).nonce <= Val(r.nonce) + DEFAULT_NONCE_RANGE

\* C28: every block a leash names was fetched from the provider, which is on
\* chain ProviderChain, so the leash map holds leashes under that chain id
\* only, also after a call with a chainId override.
C28_ChainConsistency ==
  \A ch \in DOMAIN cachedLeashes : ch = ProviderChain

\* C29: in every state the signature map holds no signature exactly when the
\* leash map holds no leash, no signer has an empty map of signatures, and
\* the leash stored for a chain is the leash makeLeash returned to the call
\* that last stored one for that chain since the last clear.
C29_MapCoupling ==
  /\ (DOMAIN cachedSignatures = {}) <=> (DOMAIN cachedLeashes = {})
  /\ \A a \in DOMAIN cachedSignatures : DOMAIN cachedSignatures[a] # {}
  /\ DOMAIN leashWriter = DOMAIN cachedLeashes
  /\ \A ch \in DOMAIN cachedLeashes : cachedLeashes[ch] = leashWriter[ch].leash

\* a call found the cached leash of its chain outdated, cleared a cache that
\* held leashes for two chains, and stored its own signature and leash,
\* which are all the cache holds
C29_Witness ==
  \E c \in Calls :
    /\ calls[c].pc = "done"
    /\ calls[c].path = "rebuilt"
    /\ calls[c].evicted = 2
    /\ SigCount(cachedSignatures) = 1
    /\ DOMAIN cachedLeashes = {ProviderChain}
    /\ cachedLeashes[ProviderChain] = Val(calls[c].leash)

\* C30: a leash returned to a call with a blockRange override has that
\* block_range; stated for leashes built by the call itself or cached by a
\* call without overrides.
C30_BlockRangeHonoured ==
  \A c \in Calls :
    LET r == calls[c]
    IN (/\ HasLeash(r)
        /\ IsSome(r.ov.blockRange)
        /\ r.path = "reused" => Val(r.cachedBy).kind = "plain") =>
         Val(r.leash).block_range = Val(r.ov.blockRange)

\* C31: a call given both a nonce override and a block override has sent no
\* pending-nonce query, no block query and no network query of makeLeash,
\* holds no leash read from the cache, and has not rejected with an error of
\* makeLeash, with or without a provider.
C31_FullOverride ==
  \A c \in Calls :
    LET r == calls[c]
    IN (r.pc # "idle" /\ IsSome(r.ov.nonce) /\ IsSome(r.ov.block)) =>
         /\ r.asked["nonce"] = 0
         /\ r.asked["latest"] = 0
         /\ r.asked["anchor"] = 0
         /\ r.asked["network"] = 0
         /\ IsNone(r.cachedLeash)
         /\ r.pc = "failed" =>
              r.err \notin {ErrNoProvider, ErrNoLatest, ErrNullBlock,
                            "getTransactionCount failed", "getBlock failed"}

\* C32: when every query and signing request is eventually answered, every
\* make call in flight (made, and neither returned nor rejected) eventually
\* returns a pack or rejects.
C32_Termination ==
  \A c \in Calls :
    (calls[c].pc \in DOMAIN QueryErrors \cup {"leashed", "signing"})
      ~> (calls[c].pc \in {"done", "failed"})

\* C33: a wrapper of a precompile reverts, and returns no value, whenever
\* its static call reports failure; when the static call succeeds the
\* wrapper returns, and the value it returns is the output of the
\* precompile, unaltered (padGas, which has no return value, returns
\* nothing).
C33_WrappersFaithful ==
  LET PrecompileWrappers ==
        {"randomBytes", "deriveSymmetricKey", "encrypt", "decrypt",
         "generateSigningKeyPair", "sign", "verify", "padGas", "gasUsed",
         "sha512_256", "sha512", "sha384"}
      \* the precompile's output, as the value returned stands for it
      OutputOf(fn, value) ==
        IF fn = "verify" THEN AbiEncodeBool(value)
        ELSE IF fn = "gasUsed" THEN AbiEncodeUint64(value)
        ELSE IF fn = "generateSigningKeyPair"
             THEN AbiEncodeBytesBytes(value[1], value[2])
        ELSE value
  IN
  (sol.pc # "idle" /\ sol.fn \in PrecompileWrappers) =>
    /\ ~sol.resp.success =>
         /\ sol.pc = "reverted"
         /\ sol.out.reverted
         /\ IsNone(sol.out.value)
    /\ sol.resp.success =>
         /\ sol.pc = "returned"
         /\ ~sol.out.reverted
         /\ IF sol.fn = "padGas" THEN IsNone(sol.out.value)
            ELSE /\ IsSome(sol.out.value)
                 /\ OutputOf(sol.fn, Val(sol.out.value)) = sol.resp.output

\* C33, amended: a wrapper of a precompile reverts, and returns no value,
\* whenever its static call reports failure.  When the static call succeeds,
\* randomBytes, encrypt, decrypt, sign, sha512 and sha384 return the output
\* unaltered; padGas returns nothing; deriveSymmetricKey and sha512_256
\* return the first 32 bytes of the output, with zero bytes where it is
\* shorter; verify, gasUsed and generateSigningKeyPair return what the output
\* ABI-decodes to (the bool of a first word of 0 or 1, the low 8 bytes of a
\* first word below 2^64, the two byte strings found with their lengths at
\* the offsets of the first two words) and revert, without a value, with no
\* reason or with Panic(0x41), when the output does not decode.
C33_WrappersDecode ==
  LET out == sol.resp.output
      PrecompileWrappers ==
        {"randomBytes", "deriveSymmetricKey", "encrypt", "decrypt",
         "generateSigningKeyPair", "sign", "verify", "padGas", "gasUsed",
         "sha512_256", "sha512", "sha384"}
      \* the output holds, at the offset its word at `head` names, the length
      \* n and then n bytes
      HoldsBytes(head, n) ==
        \E o \in 0..Len(out) :
          /\ o + 32 + n <= Len(out)
          /\ WordAt(out, head) = Word(o)
          /\ WordAt(out, o) = Word(n)
      BytesAt(head, n) ==
        LET o == CHOOSE o \in 0..Len(out) : WordAt(out, head) = Word(o)
        IN SubSeq(out, o + 33, o + 32 + n)
      Decodes ==
        CASE sol.fn = "verify" ->
               Len(out) >= 32 /\ WordAt(out, 0) \in {Word(0), Word(1)}
          [] sol.fn = "gasUsed" ->
               Len(out) >= 32 /\ SubSeq(out, 1, 24) = Fill(24, 0)
          [] sol.fn = "generateSigningKeyPair" ->
               /\ Len(out) >= 64
               /\ \E n \in 0..Len(out) : HoldsBytes(0, n)
               /\ \E n \in 0..Len(out) : HoldsBytes(32, n)
  IN
  (sol.pc # "idle" /\ sol.fn \in PrecompileWrappers) =>
    /\ ~sol.resp.success =>
         /\ sol.pc = "reverted"
         /\ sol.out.reverted
         /\ IsNone(sol.out.value)
    /\ (sol.resp.success
        /\ sol.fn \in {"randomBytes", "encrypt", "decrypt", "sign",
                       "sha512", "sha384"}) =>
         /\ sol.pc = "returned"
         /\ sol.out.value = Some(out)
    /\ (sol.resp.success /\ sol.fn = "padGas") =>
         /\ sol.pc = "returned"
         /\ IsNone(sol.out.value)
    /\ (sol.resp.success /\ sol.fn \in {"deriveSymmetricKey", "sha512_256"}) =>
         /\ sol.pc = "returned"
         /\ IsSome(sol.out.value)
         /\ Len(Val(sol.out.value)) = 32
         /\ \A i \in 1..32 :
              Val(sol.out.value)[i] = IF i <= Len(out) THEN out[i] ELSE 0
    /\ (sol.resp.success
        /\ sol.fn \in {"verify", "gasUsed", "generateSigningKeyPair"}) =>
         IF Decodes
         THEN /\ sol.pc = "returned"
              /\ IsSome(sol.out.value)
              /\ LET value == Val(sol.out.value) IN
                 CASE sol.fn = "verify" -> value = (out[32] = 1)
                   [] sol.fn = "gasUsed" -> value = SubSeq(out, 25, 32)
                   [] sol.fn = "generateSigningKeyPair" ->
                        /\ HoldsBytes(0, Len(value[1]))
                        /\ value[1] = BytesAt(0, Len(value[1]))
                        /\ HoldsBytes(32, Len(value[2]))
                        /\ value[2] = BytesAt(32, Len(value[2]))
         ELSE /\ sol.pc = "reverted"
              /\ IsNone(sol.out.value)
              /\ sol.out.reason \in {"", "Panic(0x41)"}
              /\ sol.out.reason = "Panic(0x41)" =>
                   sol.fn = "generateSigningKeyPair"

\* C33 witness: generateSigningKeyPair has returned the same two bytes as
\* public and as secret key, from the output of a successful static call
\* whose two offsets name the same unpadded byte string: an output that
\* is not the encoding of the pair returned
C33_Witness ==
  /\ sol.pc = "returned"
  /\ sol.fn = "generateSigningKeyPair"
  /\ sol.resp.success
  /\ Val(sol.out.value) = << << 9, 8 >>, << 9, 8 >> >>
  /\ sol.resp.output # AbiEncodeBytesBytes(<< 9, 8 >>, << 9, 8 >>)

\* C34: when randomBytes yields 32 bytes and generateCurve25519KeyPair
\* returns, byte 0 of the secret key is a multiple of 8, byte 31 lies in
\* 64..127, bytes 1..30 are the random bytes, and the public key is the one
\* the precompile computed from the secret key as returned: the clamped
\* scalar is what the library sent to CURVE25519_PUBLIC_KEY.
C34_ScalarClamping ==
  (/\ sol.pc = "returned"
   /\ sol.fn = "generateCurve25519KeyPair"
   /\ Len(sol.resp.output) = 32) =>
    LET rnd == sol.resp.output
        pk == Val(sol.out.value)[1]
        sk == Val(sol.out.value)[2] IN
    /\ Len(sk) = 32
    /\ sk[1] % 8 = 0
    /\ sk[32] \in 64..127
    /\ \A i \in 2..31 : sk[i] = rnd[i]
    /\ Len(sol.out.sent) = 2
    /\ sol.out.sent[2] = StaticCall(Precompiles.CURVE25519_PUBLIC_KEY, sk)
    /\ pk = Bytes32(PublicKeyOf(sk))

\* C34 witness: the random bytes began and ended with 0xff; the key pair
\* returned has a secret key that begins with 0xf8 and ends with 0x7f, and
\* a public key that is not the one of the raw random bytes
C34_Witness ==
  /\ sol.pc = "returned"
  /\ sol.fn = "generateCurve25519KeyPair"
  /\ sol.resp.output[1] = 255
  /\ sol.resp.output[32] = 255
  /\ Val(sol.out.value)[2][1] = 248
  /\ Val(sol.out.value)[2][32] = 127
  /\ Val(sol.out.value)[1] # Bytes32(PublicKeyOf(sol.resp.output))


====
